---- MODULE Spec2Model ----
(***************************************************************************)
(* A model of framequery's query compiler: the column namespace, the name  *)
(* generator and the join condition analyser (executor/_util.py), the      *)
(* aggregate split, the statement executor and the persistent Executor     *)
(* (executor/_executor.py) and the lateral join (util/_funcs.py).          *)
(*                                                                         *)
(* Encoding of Python values.                                              *)
(*   str      a sequence of one-character strings, "a.b" is <<"a",".","b">> *)
(*   None     the one-element sequence <<"None">> (no str has an element   *)
(*            longer than one character, so it equals no str)              *)
(*   Unique() <<"Unique", d>> with d the decimal digit of the allocation   *)
(*            number: two symbols are equal iff they are one allocation    *)
(*   raise    a result record with ok = FALSE and the kind of the error    *)
(***************************************************************************)
EXTENDS Integers, Sequences, FiniteSets, TLC

VARIABLES call, result, scope, history

vars == <<call, result, scope, history>>

(***************************************************************************)
(* Bounds of the model.                                                    *)
(***************************************************************************)
MaxNameLen == 3
MaxIdLen == 4
MaxRefLen == 4
MaxKnownColumns == 2
MaxConjuncts == 2
MaxGroupBy == 2

(***************************************************************************)
(* Python values.                                                          *)
(***************************************************************************)
None == <<"None">>

Ok(v) == [ok |-> TRUE, err |-> "", val |-> v]

Raise(kind) == [ok |-> FALSE, err |-> kind, val |-> None]

Min(S) == CHOOSE m \in S : \A k \in S : m <= k

Max(S) == CHOOSE m \in S : \A k \in S : m >= k

RECURSIVE StringsUpTo(_, _)
StringsUpTo(alphabet, n) ==
    IF n = 0 THEN {<<>>}
    ELSE LET shorter == StringsUpTo(alphabet, n - 1)
         IN  shorter \cup {Append(s, c) : s \in shorter, c \in alphabet}

RECURSIVE SeqsUpTo(_, _)
SeqsUpTo(S, n) ==
    IF n = 0 THEN {<<>>}
    ELSE LET shorter == SeqsUpTo(S, n - 1)
         IN  shorter \cup {Append(s, e) : s \in shorter, e \in S}

\* s.find(sep): the 1-based index of the first occurrence, 0 when there is none
OccursAt(s, sep, i) ==
    /\ i + Len(sep) - 1 <= Len(s)
    /\ \A k \in 1..Len(sep) : s[i + k - 1] = sep[k]

StrFind(s, sep) ==
    LET hits == {i \in 1..Len(s) : OccursAt(s, sep, i)}
    IN  IF hits = {} THEN 0 ELSE Min(hits)

Contains(s, sep) == StrFind(s, sep) # 0

\* s.split(sep, 1)
StrSplit1(s, sep) ==
    LET i == StrFind(s, sep)
    IN  IF i = 0 THEN <<s>>
        ELSE <<SubSeq(s, 1, i - 1), SubSeq(s, i + Len(sep), Len(s))>>

(***************************************************************************)
(* Column namespace, executor/_util.py.                                    *)
(***************************************************************************)
Separator == <<"/", "@", "/">>

Dot == <<".">>

_split_table_column(obj, sep) ==
    LET parts == StrSplit1(obj, sep)
    IN  IF Len(parts) = 1 THEN <<None, parts[1]>> ELSE parts

column_get_table(column) == _split_table_column(column, Separator)[1]

column_get_column(column) == _split_table_column(column, Separator)[2]

column_from_parts_no_separator(table, column) ==
    IF table = None THEN column ELSE table \o column

column_from_parts(table, column) ==
    IF table = None THEN column ELSE table \o Separator \o column

column_set_table(column, table) ==
    column_from_parts(table, column_get_column(column))

column_match(col, internal_col) ==
    LET c == _split_table_column(col, Dot)
        i == _split_table_column(internal_col, Separator)
    IN  IF c[1] = None THEN c[2] = i[2]
        ELSE i[1] = c[1] /\ c[2] = i[2]

\* the loop of split_quoted_name over name[i..], st = the loop's locals
RECURSIVE split_quoted_name_from(_, _, _)
split_quoted_name_from(name, i, st) ==
    IF i > Len(name) THEN Append(st.parts, st.current)
    ELSE LET c == name[i]
             next ==
                 IF st.after_quote
                 THEN [st EXCEPT !.current = Append(@, c), !.after_quote = FALSE]
                 ELSE IF st.in_string /\ c # "\""
                 THEN [st EXCEPT !.current = Append(@, c)]
                 ELSE IF c = "\""
                 THEN [st EXCEPT !.in_string = ~@]
                 ELSE IF c = "\\"
                 THEN [st EXCEPT !.after_quote = TRUE]
                 ELSE IF c = "."
                 THEN [st EXCEPT !.parts = Append(@, st.current), !.current = <<>>]
                 ELSE [st EXCEPT !.current = Append(@, c)]
         IN  split_quoted_name_from(name, i + 1, next)

split_quoted_name(name) ==
    split_quoted_name_from(name, 1,
        [parts |-> <<>>, current |-> <<>>, in_string |-> FALSE, after_quote |-> FALSE])

\* ref[-2:]
LastTwo(parts) ==
    IF Len(parts) <= 2 THEN parts ELSE SubSeq(parts, Len(parts) - 1, Len(parts))

IsCandidate(ref_column, candidate) == column_get_column(candidate) = ref_column

normalize_col_ref_first_candidate(ref, columns, optional) ==
    LET parts == LastTwo(split_quoted_name(ref))
        candidates == SelectSeq(columns, LAMBDA cand : IsCandidate(parts[1], cand))
    IN  IF Len(parts) = 2 THEN Ok(column_from_parts(parts[1], parts[2]))
        ELSE IF Len(candidates) = 0
        THEN IF optional THEN Ok(None) ELSE Raise("ColumnNotFound")
        ELSE Ok(candidates[1])

normalize_col_ref(ref, columns, optional) ==
    LET parts == LastTwo(split_quoted_name(ref))
        candidates == SelectSeq(columns, LAMBDA cand : IsCandidate(parts[1], cand))
    IN  IF Len(parts) = 2 THEN Ok(column_from_parts(parts[1], parts[2]))
        ELSE IF Len(candidates) = 0
        THEN IF optional THEN Ok(None) ELSE Raise("ColumnNotFound")
        ELSE IF Len(candidates) > 1 THEN Raise("AmbiguousColumn")
        ELSE Ok(candidates[1])

(***************************************************************************)
(* The column namespace under test: every call on every bounded input.     *)
(***************************************************************************)
NameAlphabet == {"a", "/", "@"}

Names == StringsUpTo(NameAlphabet, MaxNameLen)

Identifiers == StringsUpTo(NameAlphabet, MaxIdLen)

RefAlphabet == {"a", ".", "\"", "\\"}

References == StringsUpTo(RefAlphabet, MaxRefLen)

KnownIdentifiers ==
    { <<"a">>,
      <<"t", "/", "@", "/", "a">>, <<"u", "/", "@", "/", "a">>,
      <<"t", "/", "@", "/", "a", ".", "a">> }

KnownColumnLists == SeqsUpTo(KnownIdentifiers, MaxKnownColumns)

Pending == [fn |-> "pending"]

NamesCalls ==
    {[fn |-> "column_from_parts", table |-> q, column |-> c] :
        q \in Names \cup {None}, c \in Names}
    \cup {[fn |-> "column_get_parts", id |-> x] : x \in Identifiers}
    \cup {[fn |-> "normalize_col_ref", ref |-> ref, columns |-> columns,
           optional |-> optional] :
        ref \in References, columns \in KnownColumnLists, optional \in BOOLEAN}

InitNames ==
    /\ call \in NamesCalls
    /\ result = Pending
    /\ scope = <<>>
    /\ history = <<>>

CallColumnFromParts ==
    /\ result = Pending
    /\ call.fn = "column_from_parts"
    /\ LET id == column_from_parts(call.table, call.column)
       IN  result' = [fn |-> call.fn, id |-> id,
                      table |-> column_get_table(id),
                      column |-> column_get_column(id)]
    /\ UNCHANGED <<call, scope, history>>

CallColumnGetParts ==
    /\ result = Pending
    /\ call.fn = "column_get_parts"
    /\ LET table == column_get_table(call.id)
           column == column_get_column(call.id)
       IN  result' = [fn |-> call.fn, table |-> table, column |-> column,
                      id |-> column_from_parts(table, column)]
    /\ UNCHANGED <<call, scope, history>>

CallNormalizeColRef ==
    /\ result = Pending
    /\ call.fn = "normalize_col_ref"
    /\ result' = [fn |-> call.fn,
                  ret |-> normalize_col_ref(call.ref, call.columns, call.optional)]
    /\ UNCHANGED <<call, scope, history>>

NextNames == CallColumnFromParts \/ CallColumnGetParts \/ CallNormalizeColRef

SpecNames == InitNames /\ [][NextNames]_vars

(***************************************************************************)
(* Statement tree nodes (parser/ast.py records), as far as the executor    *)
(* reads them.  Every node carries its variant in tag.                     *)
(***************************************************************************)
Name(name) == [tag |-> "Name", name |-> name]

Integer(value) == [tag |-> "Integer", value |-> value]

Bool(value) == [tag |-> "Bool", value |-> value]

BinaryOp(op, left, right) ==
    [tag |-> "BinaryOp", op |-> op, left |-> left, right |-> right]

\* None where a node is expected, and a list of nodes where None may stand
NoNode == [tag |-> "None"]

List(items) == [tag |-> "List", items |-> items]

(***************************************************************************)
(* Join condition analyser, executor/_util.py.                             *)
(***************************************************************************)
RECURSIVE _flatten_join_condition(_)
_flatten_join_condition(condition) ==
    IF condition.tag # "BinaryOp" THEN Raise("UnsupportedJoinCondition")
    ELSE IF condition.op = "AND"
    THEN LET l == _flatten_join_condition(condition.left)
             r == _flatten_join_condition(condition.right)
         IN  IF ~l.ok THEN l
             ELSE IF ~r.ok THEN r
             ELSE Ok(l.val \o r.val)
    ELSE IF condition.op = "="
    THEN IF ~(condition.left.tag = "Name" /\ condition.right.tag = "Name")
         THEN Raise("UnsupportedJoinCondition")
         ELSE Ok(<< <<condition.left.name, condition.right.name>> >>)
    ELSE Raise("UnsupportedJoinCondition")

_is_left(left_columns, right_columns, ref) ==
    LET left_ref == normalize_col_ref(ref, left_columns, TRUE)
        right_ref == normalize_col_ref(ref, right_columns, TRUE)
    IN  IF ~left_ref.ok THEN left_ref
        ELSE IF ~right_ref.ok THEN right_ref
        ELSE IF (left_ref.val = None) = (right_ref.val = None)
        THEN Raise("AmbiguousJoinColumn")
        ELSE Ok([is_left |-> left_ref.val # None,
                 ref |-> IF left_ref.val # None THEN left_ref.val ELSE right_ref.val])

\* the loop of as_pandas_join_condition over flat_condition[i..]
RECURSIVE join_keys_from(_, _, _, _, _, _)
join_keys_from(left_columns, right_columns, flat, i, left, right) ==
    IF i > Len(flat) THEN Ok(<<left, right>>)
    ELSE LET aa == _is_left(left_columns, right_columns, flat[i][1])
             bb == IF aa.ok THEN _is_left(left_columns, right_columns, flat[i][2])
                   ELSE aa
         IN  IF ~aa.ok THEN aa
             ELSE IF ~bb.ok THEN bb
             ELSE IF aa.val.is_left = bb.val.is_left THEN Raise("SelfJoinCondition")
             ELSE IF aa.val.is_left
             THEN join_keys_from(left_columns, right_columns, flat, i + 1,
                                 Append(left, aa.val.ref), Append(right, bb.val.ref))
             ELSE join_keys_from(left_columns, right_columns, flat, i + 1,
                                 Append(left, bb.val.ref), Append(right, aa.val.ref))

as_pandas_join_condition(left_columns, right_columns, condition) ==
    LET flat_condition == _flatten_join_condition(condition)
    IN  IF ~flat_condition.ok THEN flat_condition
        ELSE join_keys_from(left_columns, right_columns, flat_condition.val, 1,
                            <<>>, <<>>)

(***************************************************************************)
(* The join condition analyser under test.                                 *)
(***************************************************************************)
Str1(c) == <<c>>

Qualified(t, c) == <<t, ".", c>>

InternalId(t, c) == column_from_parts(<<t>>, <<c>>)

\* table a holds the columns i and k, table b the columns i and j
JoinLeftColumns == <<InternalId("a", "i"), InternalId("a", "k")>>

JoinRightColumns == <<InternalId("b", "i"), InternalId("b", "j")>>

JoinReferences ==
    {Str1(c) : c \in {"i", "k", "j", "z"}}
    \cup {Qualified("a", c) : c \in {"i", "k"}}
    \cup {Qualified("b", c) : c \in {"i", "j"}}

JoinLeaves ==
    {BinaryOp("=", Name(x), Name(y)) : x \in JoinReferences, y \in JoinReferences}
    \cup {BinaryOp("<", Name(Str1("k")), Name(Str1("j"))),
          BinaryOp("=", Name(Str1("k")), Integer(1)),
          Name(Str1("k"))}

\* the conjuncts that follow the first one
JoinMoreLeaves ==
    {BinaryOp("=", Name(Str1("k")), Name(Str1("j"))),
     BinaryOp("=", Name(Str1("j")), Name(Str1("k"))),
     BinaryOp("=", Name(Qualified("b", "i")), Name(Qualified("a", "i"))),
     BinaryOp("<", Name(Str1("k")), Name(Str1("j")))}

\* conjunctions of up to n comparisons, nested to the left and to the right
RECURSIVE JoinConditions(_)
JoinConditions(n) ==
    IF n <= 1 THEN JoinLeaves
    ELSE JoinConditions(n - 1)
         \cup {BinaryOp("AND", c, l) : c \in JoinConditions(n - 1), l \in JoinMoreLeaves}
         \cup {BinaryOp("AND", l, c) : c \in JoinConditions(n - 1), l \in JoinMoreLeaves}

JoinCalls ==
    {[fn |-> "as_pandas_join_condition", left_columns |-> JoinLeftColumns,
      right_columns |-> JoinRightColumns, condition |-> c] :
        c \in JoinConditions(MaxConjuncts)}

InitJoin ==
    /\ call \in JoinCalls
    /\ result = Pending
    /\ scope = <<>>
    /\ history = <<>>

CallAsPandasJoinCondition ==
    /\ result = Pending
    /\ call.fn = "as_pandas_join_condition"
    /\ result' = [fn |-> call.fn,
                  ret |-> as_pandas_join_condition(call.left_columns,
                              call.right_columns, call.condition)]
    /\ UNCHANGED <<call, scope, history>>

NextJoin == CallAsPandasJoinCondition

SpecJoin == InitJoin /\ [][NextJoin]_vars

(***************************************************************************)
(* Claims on the column namespace, checked under SpecNames.                *)
(***************************************************************************)
EndsWith(s, suffix) ==
    /\ Len(s) >= Len(suffix)
    /\ SubSeq(s, Len(s) - Len(suffix) + 1, Len(s)) = suffix

NoSeparator(s) == ~Contains(s, Separator)

RoundTripOfParts ==
    /\ result.table = call.table
    /\ result.column = call.column
    /\ (call.table = None => NoSeparator(result.id))

\* C9: normalize_col_ref on a bare reference returns the one known identifier
\* whose column part equals it (a member of known_columns), fails with
\* ColumnNotFound on no match unless optional is set (then None), fails with
\* AmbiguousColumn on several matches whatever optional is; a reference of two
\* or more components returns from_parts(second-to-last, last) unchecked.
C9_ResolveBranches ==
    result.fn = "normalize_col_ref" =>
        LET parts == split_quoted_name(call.ref)
            n == Len(parts)
            matching == {i \in 1..Len(call.columns) :
                            column_get_column(call.columns[i]) = parts[1]}
        IN  IF n >= 2
            THEN result.ret = Ok(column_from_parts(parts[n - 1], parts[n]))
            ELSE IF Cardinality(matching) = 1
            THEN /\ result.ret.ok
                 /\ \A i \in matching : result.ret.val = call.columns[i]
                 /\ \E i \in 1..Len(call.columns) : result.ret.val = call.columns[i]
            ELSE IF matching = {}
            THEN result.ret = (IF call.optional THEN Ok(None) ELSE Raise("ColumnNotFound"))
            ELSE result.ret = Raise("AmbiguousColumn")

\* an optional lookup of a bare reference that two known columns match
C9_Witness ==
    /\ result.fn = "normalize_col_ref"
    /\ call.optional
    /\ Len(split_quoted_name(call.ref)) = 1
    /\ Len(call.columns) = 2
    /\ call.columns[1] # call.columns[2]
    /\ result.ret = Raise("AmbiguousColumn")

\* C10 as stated: from_parts(get_table(x), get_column(x)) = x for every
\* identifier x, and for every column c and qualifier q without the separator
\* get_table(from_parts(q, c)) = q and get_column(from_parts(q, c)) = c, with
\* from_parts(None, c) holding no separator.
C10_RoundTripAsStated ==
    /\ result.fn = "column_get_parts" => result.id = call.id
    /\ (/\ result.fn = "column_from_parts"
        /\ NoSeparator(call.column)
        /\ (call.table = None \/ NoSeparator(call.table)))
       => RoundTripOfParts

\* C10 amended: the same, for qualifiers that moreover do not end in "/@", the
\* first two characters of the separator.
C10_RoundTrip ==
    /\ result.fn = "column_get_parts" => result.id = call.id
    /\ (/\ result.fn = "column_from_parts"
        /\ NoSeparator(call.column)
        /\ (call.table = None
            \/ (NoSeparator(call.table) /\ ~EndsWith(call.table, <<"/", "@">>))))
       => RoundTripOfParts

\* a qualified identifier was built from a qualifier and a column that hold
\* separator characters, and taken apart again
C10_Witness ==
    /\ result.fn = "column_from_parts"
    /\ call.table = <<"a", "/">>
    /\ call.column = <<"@", "a">>
    /\ result.id = <<"a", "/", "/", "@", "/", "@", "a">>
    /\ result.table = call.table

(***************************************************************************)
(* Claims on the join condition analyser, checked under SpecJoin.          *)
(***************************************************************************)
\* the identifier of columns that a reference names, None when it names none:
\* a qualified reference names the identifier of its table and column when
\* the list holds it, a bare one the only identifier with that column part
Denotes(ref, columns) ==
    LET parts == LastTwo(split_quoted_name(ref))
        held == {columns[i] : i \in 1..Len(columns)}
        named == IF Len(parts) = 2
                 THEN held \cap {column_from_parts(parts[1], parts[2])}
                 ELSE {c \in held : column_get_column(c) = parts[1]}
    IN  IF Cardinality(named) = 1 THEN CHOOSE c \in named : TRUE ELSE None

OnLeftOnly(ref) ==
    /\ Denotes(ref, call.left_columns) # None
    /\ Denotes(ref, call.right_columns) = None

OnRightOnly(ref) ==
    /\ Denotes(ref, call.right_columns) # None
    /\ Denotes(ref, call.left_columns) = None

CrossPair(pair) ==
    \/ OnLeftOnly(pair[1]) /\ OnRightOnly(pair[2])
    \/ OnRightOnly(pair[1]) /\ OnLeftOnly(pair[2])

SameSidePair(pair) ==
    \/ OnLeftOnly(pair[1]) /\ OnLeftOnly(pair[2])
    \/ OnRightOnly(pair[1]) /\ OnRightOnly(pair[2])

LeftMember(pair) ==
    IF OnLeftOnly(pair[1]) THEN Denotes(pair[1], call.left_columns)
    ELSE Denotes(pair[2], call.left_columns)

RightMember(pair) ==
    IF OnLeftOnly(pair[1]) THEN Denotes(pair[2], call.right_columns)
    ELSE Denotes(pair[1], call.right_columns)

\* C7: for a conjunction of n equalities, each between a column of the left
\* table and a column of the right table, in either orientation, bare or
\* table-qualified, the result is the two key lists of length n whose i-th
\* members are the left and the right member of the i-th conjunct.
C7_PairingAsStated ==
    result.fn = "as_pandas_join_condition" =>
        LET flat == _flatten_join_condition(call.condition)
        IN  (flat.ok /\ \A i \in 1..Len(flat.val) : CrossPair(flat.val[i]))
            => result.ret = Ok(<< [i \in 1..Len(flat.val) |-> LeftMember(flat.val[i])],
                                  [i \in 1..Len(flat.val) |-> RightMember(flat.val[i])] >>)

\* C8: a condition of equalities between columns of the two tables, one of
\* which has both references on the same side, fails with SelfJoinCondition
\* and with no other kind of error.
C8_SelfJoinAsStated ==
    result.fn = "as_pandas_join_condition" =>
        LET flat == _flatten_join_condition(call.condition)
        IN  (/\ flat.ok
             /\ \A i \in 1..Len(flat.val) :
                    CrossPair(flat.val[i]) \/ SameSidePair(flat.val[i])
             /\ \E i \in 1..Len(flat.val) : SameSidePair(flat.val[i]))
            => result.ret = Raise("SelfJoinCondition")

(***************************************************************************)
(* More statement tree nodes.                                              *)
(***************************************************************************)
Column(value, alias) == [tag |-> "Column", value |-> value, alias |-> alias]

CallSetFunction(func, args) == [tag |-> "CallSetFunction", func |-> func, args |-> args]

WildCard(table) == [tag |-> "WildCard", table |-> table]

InternalName(name) == [tag |-> "InternalName", name |-> name]

\* the nodes below a node, the node included (util/_record.py walk is not
\* part of the sources; it visits every node of the tree)
RECURSIVE walk(_)
walk(node) ==
    {node} \cup
    (CASE node.tag = "Column" -> walk(node.value)
       [] node.tag = "BinaryOp" -> walk(node.left) \cup walk(node.right)
       [] node.tag = "CallSetFunction" ->
              UNION {walk(node.args[i]) : i \in 1..Len(node.args)}
       [] OTHER -> {})

(***************************************************************************)
(* Unique symbols and the name generator, executor/_util.py.               *)
(* A compilation context ctx holds what one statement's execution          *)
(* threads through its calls: the number of Unique() allocations so far,   *)
(* the UniqueNameGenerator, the log of backend operations issued, the      *)
(* model object and the files the model reads and writes.                  *)
(***************************************************************************)
DigitChars == <<"0", "1", "2", "3", "4", "5", "6", "7", "8", "9">>

\* '{}'.format(n) for a natural number n
RECURSIVE Decimal(_)
Decimal(n) ==
    IF n < 10 THEN <<DigitChars[n + 1]>>
    ELSE Append(Decimal(n \div 10), DigitChars[(n % 10) + 1])

UniqueSymbol(k) == <<"Unique">> \o Decimal(k)

IsUnique(obj) == Len(obj) >= 1 /\ obj[1] = "Unique"

Ret(v, ctx) == [ok |-> TRUE, err |-> "", val |-> v, ctx |-> ctx]

Fail(kind, ctx) == [ok |-> FALSE, err |-> kind, val |-> None, ctx |-> ctx]

\* Unique(): a symbol equal to no symbol allocated before
NewUnique(ctx) == Ret(UniqueSymbol(ctx.uniques), [ctx EXCEPT !.uniques = @ + 1])

UniquePrefix == <<"u", "n", "i", "q", "u", "e", "-">>

NewNameGenerator == [names |-> <<>>, ids |-> 0, fixed |-> FALSE]

\* a get that hands out a name and forgets it
UniqueNameGenerator_get_unmemoized(ng, obj) ==
    IF ~IsUnique(obj) THEN [ok |-> TRUE, err |-> "", val |-> obj, ng |-> ng]
    ELSE IF ng.fixed THEN [ok |-> FALSE, err |-> "UnknownUnique", val |-> None, ng |-> ng]
    ELSE [ok |-> TRUE, err |-> "", val |-> UniquePrefix \o Decimal(ng.ids),
          ng |-> [ng EXCEPT !.ids = @ + 1]]

\* UniqueNameGenerator.get, on the generator ng: the value and the generator
UniqueNameGenerator_get(ng, obj) ==
    IF ~IsUnique(obj) THEN [ok |-> TRUE, err |-> "", val |-> obj, ng |-> ng]
    ELSE IF obj \in DOMAIN ng.names
    THEN [ok |-> TRUE, err |-> "", val |-> ng.names[obj], ng |-> ng]
    ELSE IF ng.fixed THEN [ok |-> FALSE, err |-> "UnknownUnique", val |-> None, ng |-> ng]
    ELSE LET name == UniquePrefix \o Decimal(ng.ids)
         IN  [ok |-> TRUE, err |-> "", val |-> name,
              ng |-> [ng EXCEPT !.names = (obj :> name) @@ @, !.ids = @ + 1]]

\* The model object of get_model('pandas'): the registries the Executor
\* writes (add_table_function, add_lateral_function).  The class is not part
\* of the sources; a new model is taken to have nothing registered.
PandasModel ==
    [table_functions |-> <<>>, lateral_functions |-> <<>>, lateral_meta |-> <<>>]

\* the files below the model's basepath: none
NoFiles == <<>>

NewContext ==
    [uniques |-> 0, ng |-> NewNameGenerator, ops |-> <<>>, selects |-> 0, sel |-> 0,
     model |-> PandasModel, files |-> NoFiles]

\* to_internal_col is imported by _executor.py and not part of the sources:
\* a symbol stays itself, a dotted name becomes the internal identifier
to_internal_col(name) ==
    IF IsUnique(name) THEN name
    ELSE LET parts == _split_table_column(name, Dot)
         IN  column_from_parts(parts[1], parts[2])

(***************************************************************************)
(* Select list normalisation, executor/_executor.py.                       *)
(***************************************************************************)
get_alias(col_node, ctx) ==
    IF col_node.tag = "Column" /\ col_node.alias # None
    THEN Ret(to_internal_col(col_node.alias), ctx)
    ELSE IF col_node.tag = "Column" /\ col_node.value.tag = "Name"
    THEN Ret(to_internal_col(col_node.value.name), ctx)
    ELSE LET u == NewUnique(ctx) IN Ret(to_internal_col(u.val), u.ctx)

\* the loop of normalize_columns over columns[i..]
RECURSIVE normalize_columns_from(_, _, _, _, _)
normalize_columns_from(table_columns, columns, i, acc, ctx) ==
    IF i > Len(columns) THEN Ret(acc, ctx)
    ELSE LET col == columns[i]
         IN  IF col.tag = "WildCard"
             THEN LET chosen ==
                          IF col.table = None THEN table_columns
                          ELSE SelectSeq(table_columns,
                                   LAMBDA c : column_get_table(c) = col.table)
                      names == [k \in 1..Len(chosen) |-> InternalName(chosen[k])]
                  IN  normalize_columns_from(table_columns, columns, i + 1,
                                             acc \o names, ctx)
             ELSE IF col.tag = "Column"
             THEN LET alias == get_alias(col, ctx)
                  IN  normalize_columns_from(table_columns, columns, i + 1,
                          Append(acc, [col EXCEPT !.alias = alias.val]), alias.ctx)
             ELSE Fail("CannotNormalize", ctx)

normalize_columns(table_columns, columns, ctx) ==
    normalize_columns_from(table_columns, columns, 1, <<>>, ctx)

(***************************************************************************)
(* Aggregate split, executor/_executor.py.                                 *)
(***************************************************************************)
Fragment(level, item) == [level |-> level, item |-> item]

Levels(split) == {split[i].level : i \in 1..Len(split)}

AtLevel(split, level) ==
    LET kept == SelectSeq(split, LAMBDA f : f.level = level)
    IN  [i \in 1..Len(kept) |-> kept[i].item]

\* SplitResult.by_levels: the lists of levels 0..maxlevel, list i at index i+1
by_levels(split, maxlevel) ==
    IF Levels(split) = {} THEN Raise("ValueError")
    ELSE IF ~(Max(Levels(split)) <= maxlevel) THEN Raise("AssertionError")
    ELSE Ok([level \in 1..(maxlevel + 1) |-> AtLevel(split, level - 1)])

\* SplitResult.from_levels
from_levels(post, agg, pre) ==
    [i \in 1..Len(post) |-> Fragment(0, post[i])]
    \o [i \in 1..Len(agg) |-> Fragment(1, agg[i])]
    \o [i \in 1..Len(pre) |-> Fragment(2, pre[i])]

promote(split) == [i \in 1..Len(split) |-> Fragment(split[i].level + 1, split[i].item)]

\* group_by_map[node]: a dict, so the last column of that value wins
GroupByKeys(node, group_by) == {i \in 1..Len(group_by) : group_by[i].value = node}

group_by_map_get(node, group_by) == Name(group_by[Max(GroupByKeys(node, group_by))].alias)

UpperCase ==
    <<"A", "B", "C", "D", "E", "F", "G", "H", "I", "J", "K", "L", "M",
      "N", "O", "P", "Q", "R", "S", "T", "U", "V", "W", "X", "Y", "Z">>

LowerCase ==
    <<"a", "b", "c", "d", "e", "f", "g", "h", "i", "j", "k", "l", "m",
      "n", "o", "p", "q", "r", "s", "t", "u", "v", "w", "x", "y", "z">>

\* the lower-case letter of every upper-case ASCII letter
LowerChars ==
    [c \in {UpperCase[i] : i \in 1..26} |->
        LowerCase[CHOOSE i \in 1..26 : UpperCase[i] = c]]

\* str.lower
Lower(s) == [i \in 1..Len(s) |-> IF s[i] \in DOMAIN LowerChars THEN LowerChars[s[i]] ELSE s[i]]

CountName == <<"c", "o", "u", "n", "t">>

\* ids = [Unique() for _ in node.args]
RECURSIVE NewUniques(_, _)
NewUniques(n, ctx) ==
    IF n = 0 THEN Ret(<<>>, ctx)
    ELSE LET first == NewUniques(n - 1, ctx)
             u == NewUnique(first.ctx)
         IN  Ret(Append(first.val, u.val), u.ctx)

aggregate_split_name(node, group_by, ctx) == Ret(<<Fragment(0, node)>>, ctx)

aggregate_split_call_set_function_unsplit(node0, group_by, ctx) ==
    LET self_id == NewUnique(ctx)
    IN  Ret(<<Fragment(1, Column(node0, self_id.val)),
              Fragment(0, Name(self_id.val))>>, self_id.ctx)

aggregate_split_call_set_function(node0, group_by, ctx) ==
    LET node == IF Lower(node0.func) = CountName /\ node0.args = <<WildCard(None)>>
                THEN CallSetFunction(CountName, <<Integer(1)>>)
                ELSE node0
        ids == NewUniques(Len(node.args), ctx)
        self_id == NewUnique(ids.ctx)
        deferred_args == [i \in 1..Len(node.args) |-> Name(ids.val[i])]
    IN  Ret([i \in 1..Len(node.args) |-> Fragment(2, Column(node.args[i], ids.val[i]))]
            \o <<Fragment(1, Column([node EXCEPT !.args = deferred_args], self_id.val))>>
            \o <<Fragment(0, Name(self_id.val))>>,
            self_id.ctx)

RECURSIVE aggregate_split(_, _, _)

\* a column split that passes the value's fragment on without the alias
aggregate_split_column_levels_untagged(alias, levels, ctx) ==
    IF ~levels.ok THEN Fail(levels.err, ctx)
    ELSE IF Len(levels.val[1]) # 1 THEN Fail("ValueError", ctx)
    ELSE Ret(from_levels(<<levels.val[1][1]>>, levels.val[2], levels.val[3]), ctx)

\* post, = post; post = [a.Column(post, alias=alias)]
aggregate_split_column_levels(alias, levels, ctx) ==
    IF ~levels.ok THEN Fail(levels.err, ctx)
    ELSE IF Len(levels.val[1]) # 1 THEN Fail("ValueError", ctx)
    ELSE Ret(from_levels(<<Column(levels.val[1][1], alias)>>,
                         levels.val[2], levels.val[3]), ctx)

\* post, agg, pre = result.by_levels(2)
aggregate_split_column_result(alias, res) ==
    IF ~res.ok THEN res
    ELSE aggregate_split_column_levels(alias, by_levels(res.val, 2), res.ctx)

\* result = aggregate_split(node.value, group_by)
aggregate_split_column_value(node, group_by, alias) ==
    aggregate_split_column_result(alias.val,
                                  aggregate_split(node.value, group_by, alias.ctx))

aggregate_split_column(node, group_by, ctx) ==
    aggregate_split_column_value(node, group_by, get_alias(node, ctx))

\* RuleSet.apply_rules (util/_monadic.py is not part of the sources): the
\* first rule whose matcher accepts the node; a node no rule accepts fails
aggregate_split_apply_rules(node, group_by, ctx) ==
    CASE node.tag = "Column" -> aggregate_split_column(node, group_by, ctx)
      [] node.tag = "Name" -> aggregate_split_name(node, group_by, ctx)
      [] node.tag = "CallSetFunction" ->
             aggregate_split_call_set_function(node, group_by, ctx)
      [] OTHER -> Fail("NoHandler", ctx)

\* a split that goes to the rules without looking at the group-by columns
aggregate_split_without_keys(node, group_by, ctx) ==
    aggregate_split_apply_rules(node, group_by, ctx)

aggregate_split(node, group_by, ctx) ==
    IF GroupByKeys(node, group_by) # {}
    THEN Ret(<<Fragment(0, group_by_map_get(node, group_by))>>, ctx)
    ELSE aggregate_split_apply_rules(node, group_by, ctx)

(***************************************************************************)
(* Group-by normalisation, executor/_executor.py.                          *)
(***************************************************************************)
\* aliases[name]: a dict, so the last select column of that alias wins
AliasKeys(name, columns) ==
    {i \in 1..Len(columns) : columns[i].alias # None /\ columns[i].alias = name}

aliases_get(name, columns) == columns[Max(AliasKeys(name, columns))].value

\* internal_column(table_columns), the matcher of case 1
internal_column(table_columns, obj) ==
    \E i \in 1..Len(table_columns) : column_match(obj, table_columns[i])

\* seq[idx] of a Python list, idx zero-based, negative from the end
PyIndexOk(seq, idx) == -Len(seq) <= idx /\ idx < Len(seq)

PyIndex(seq, idx) == IF idx >= 0 THEN seq[idx + 1] ELSE seq[Len(seq) + idx + 1]

\* a matcher that tries the select-list aliases before the table columns
normalize_group_by_match_alias_first(table_columns, columns, expr, ctx) ==
    IF expr.tag = "Name" /\ AliasKeys(expr.name, columns) # {}
    THEN Ret(Column(aliases_get(expr.name, columns), to_internal_col(expr.name)), ctx)
    ELSE IF expr.tag = "Name" /\ internal_column(table_columns, expr.name)
    THEN Ret(Column(Name(expr.name), expr.name), ctx)
    ELSE IF expr.tag # "Name"
    THEN LET u == NewUnique(ctx) IN Ret(Column(expr, u.val), u.ctx)
    ELSE Fail("UnhandledGroupByExpression", ctx)

\* the matcher of normalize_group_by on one expression
normalize_group_by_match(table_columns, columns, expr, ctx) ==
    IF expr.tag = "Name" /\ internal_column(table_columns, expr.name)
    THEN Ret(Column(Name(expr.name), expr.name), ctx)
    ELSE IF expr.tag = "Name" /\ AliasKeys(expr.name, columns) # {}
    THEN Ret(Column(aliases_get(expr.name, columns), to_internal_col(expr.name)), ctx)
    ELSE IF expr.tag # "Name"
    THEN LET u == NewUnique(ctx) IN Ret(Column(expr, u.val), u.ctx)
    ELSE Fail("UnhandledGroupByExpression", ctx)

\* the loop of normalize_group_by over group_by[i..]
RECURSIVE normalize_group_by_from(_, _, _, _, _, _)

\* normalized.append(...) of the expression matched at group_by[i]
normalize_group_by_append(table_columns, columns, group_by, i, normalized, match) ==
    IF ~match.ok THEN match
    ELSE normalize_group_by_from(table_columns, columns, group_by, i + 1,
                                 Append(normalized, match.val), match.ctx)

normalize_group_by_from(table_columns, columns, group_by, i, normalized, ctx) ==
    IF i > Len(group_by) THEN Ret(normalized, ctx)
    ELSE normalize_group_by_append(table_columns, columns, group_by, i, normalized,
             normalize_group_by_match(table_columns, columns, group_by[i], ctx))

\* integers replaced by the value of the one-based select column
PositionOk(columns, col) ==
    col.tag = "Integer" => PyIndexOk(columns, col.value - 1)

Positional(columns, col) ==
    IF col.tag = "Integer" THEN PyIndex(columns, col.value - 1).value ELSE col

normalize_group_by(table_columns, columns, group_by, ctx) ==
    IF group_by.tag = "None" THEN Ret(<<>>, ctx)
    ELSE IF \E i \in 1..Len(columns) : columns[i].tag # "Column"
    THEN Fail("AttributeError", ctx)
    ELSE IF \E i \in 1..Len(group_by.items) : ~PositionOk(columns, group_by.items[i])
    THEN Fail("IndexError", ctx)
    ELSE normalize_group_by_from(table_columns, columns,
             [i \in 1..Len(group_by.items) |-> Positional(columns, group_by.items[i])],
             1, <<>>, ctx)

(***************************************************************************)
(* The aggregate split under test.                                         *)
(***************************************************************************)
SumName == <<"S", "U", "M">>

MinName == <<"M", "I", "N">>

MaxName == <<"M", "A", "X">>

CountUpper == <<"C", "O", "U", "N", "T">>

CountMixed == <<"C", "o", "u", "n", "t">>

ColP == Name(<<"p">>)

ColQ == Name(<<"q">>)

ColD == Name(<<"d">>)

SplitAggregates ==
    {CallSetFunction(SumName, <<ColP>>),
     CallSetFunction(SumName, <<BinaryOp("*", ColP, ColQ)>>),
     CallSetFunction(CountUpper, <<WildCard(None)>>),
     CallSetFunction(CountMixed, <<WildCard(None)>>),
     CallSetFunction(CountName, <<ColP, ColQ>>),
     CallSetFunction(MaxName, <<CallSetFunction(SumName, <<ColP>>)>>),
     CallSetFunction(SumName, <<>>)}

SplitAtoms == {ColP, ColD, Integer(1), BinaryOp("*", ColP, ColQ)}

SplitValues ==
    SplitAtoms \cup SplitAggregates
    \cup {BinaryOp("+", l, r) : l \in SplitAggregates, r \in SplitAtoms}
    \cup {BinaryOp("+", l, r) : l \in {ColP, Integer(1)}, r \in SplitAggregates}

SplitAliases == {None, <<"x">>, <<"t", ".", "x">>}

SplitNodes == SplitValues \cup {Column(v, al) : v \in SplitValues, al \in SplitAliases}

\* normalised group-by columns, as normalize_group_by returns them
SplitGroupColumns ==
    {Column(ColD, <<"d">>),
     Column(ColP, <<"x">>),
     Column(BinaryOp("*", ColP, ColQ), UniqueSymbol(0)),
     Column(CallSetFunction(SumName, <<ColP>>), UniqueSymbol(1)),
     Column(Bool(TRUE), UniqueSymbol(2)),
     Column(ColD, UniqueSymbol(3))}

SplitGroupBys == SeqsUpTo(SplitGroupColumns, MaxGroupBy)

\* the symbols 0..3 are taken by the group-by columns
SplitContext == [NewContext EXCEPT !.uniques = 4]

SplitCalls ==
    {[fn |-> "aggregate_split", node |-> n, group_by |-> g] :
        n \in SplitNodes, g \in SplitGroupBys}

InitSplit ==
    /\ call \in SplitCalls
    /\ result = Pending
    /\ scope = <<>>
    /\ history = <<>>

CallAggregateSplit ==
    /\ result = Pending
    /\ call.fn = "aggregate_split"
    /\ result' = [fn |-> call.fn,
                  ret |-> aggregate_split(call.node, call.group_by, SplitContext)]
    /\ UNCHANGED <<call, scope, history>>

NextSplit == CallAggregateSplit

SpecSplit == InitSplit /\ [][NextSplit]_vars

(***************************************************************************)
(* Claims on the aggregate split, checked under SpecSplit.                 *)
(***************************************************************************)
IsGroupKey(node, group_by) == \E i \in 1..Len(group_by) : group_by[i].value = node

SplitOf(node) == aggregate_split(node, call.group_by, SplitContext)

\* C5: splitting a composite expression that is no Column, Name or
\* CallSetFunction and has an aggregate call as a child succeeds: the result
\* holds the fragments of levels 2 and 1 of the child aggregate and one
\* fragment of level 0, the expression over its children's level 0
\* fragments; it does not fail with NoHandler.
C5_CompositeSplitAsStated ==
    (/\ result.fn = "aggregate_split"
     /\ call.node.tag = "BinaryOp"
     /\ ~IsGroupKey(call.node, call.group_by)
     /\ \/ call.node.left.tag = "CallSetFunction"
        \/ call.node.right.tag = "CallSetFunction")
    => /\ result.ret.ok
       /\ result.ret.err # "NoHandler"
       /\ Len(AtLevel(result.ret.val, 0)) = 1
       /\ AtLevel(result.ret.val, 0)[1].tag = "BinaryOp"
       /\ AtLevel(result.ret.val, 0)[1].op = call.node.op
       /\ Len(AtLevel(result.ret.val, 1)) >= 1
       /\ \A i \in 1..Len(AtLevel(result.ret.val, 2)) :
              AtLevel(result.ret.val, 2)[i].tag = "Column"

(***************************************************************************)
(* The backend.  The table engines (executor/_pandas.py, _dask.py) are not *)
(* part of the sources; the operations follow the contracts of the         *)
(* abstract table-operation interface.  A table is its column identifiers  *)
(* and its rows, a row the values of the columns in order; values are      *)
(* integers, TRUE is 1.  Every operation appends itself to ctx.ops.        *)
(***************************************************************************)
Table(columns, rows) == [columns |-> columns, rows |-> rows]

Log(ctx, event) == [ctx EXCEPT !.ops = Append(@, event)]

Issue(ctx, op) == Log(ctx, [op |-> op, sel |-> ctx.sel])

\* the aggregate operation is logged with its group-by columns
IssueAggregate(ctx, group_by) ==
    Log(ctx, [op |-> "aggregate", sel |-> ctx.sel, group_by |-> group_by])

ColumnIndices(table, id) == {i \in 1..Len(table.columns) : table.columns[i] = id}

\* the column a name refers to: the symbol's assigned name, resolved
\* against the table's columns
ResolvedError(table, ref) ==
    IF ~ref.ok THEN ref.err
    ELSE IF ColumnIndices(table, ref.val) = {} THEN "ColumnNotFound"
    ELSE ""

ResolveError(table, name, ctx) ==
    IF IsUnique(name) /\ name \notin DOMAIN ctx.ng.names THEN "ColumnNotFound"
    ELSE ResolvedError(table,
             normalize_col_ref(UniqueNameGenerator_get(ctx.ng, name).val,
                               table.columns, FALSE))

ResolveIndex(table, name, ctx) ==
    Min(ColumnIndices(table,
            normalize_col_ref(UniqueNameGenerator_get(ctx.ng, name).val,
                              table.columns, FALSE).val))

\* the result of an operation: the error found first, else the value
Checked(err, res, ctx) == IF err # "" THEN Fail(err, ctx) ELSE res

RowWiseOps == {"+", "*", "=", "<", "AND"}

\* "" when the backend can evaluate expr on every row of table
RECURSIVE EvalError(_, _, _)
EvalError(expr, table, ctx) ==
    CASE expr.tag = "Name" -> ResolveError(table, expr.name, ctx)
      [] expr.tag = "InternalName" ->
             IF ColumnIndices(table, expr.name) = {} THEN "ColumnNotFound" ELSE ""
      [] expr.tag \in {"Integer", "Bool"} -> ""
      [] expr.tag = "BinaryOp" ->
             IF expr.op \notin RowWiseOps THEN "UnknownOperator"
             ELSE IF EvalError(expr.left, table, ctx) # ""
             THEN EvalError(expr.left, table, ctx)
             ELSE EvalError(expr.right, table, ctx)
      [] OTHER -> "CannotEvaluate"

RECURSIVE Eval(_, _, _, _)
Eval(expr, table, row, ctx) ==
    CASE expr.tag = "Name" -> row[ResolveIndex(table, expr.name, ctx)]
      [] expr.tag = "InternalName" -> row[Min(ColumnIndices(table, expr.name))]
      [] expr.tag = "Integer" -> expr.value
      [] expr.tag = "Bool" -> IF expr.value THEN 1 ELSE 0
      [] expr.tag = "BinaryOp" ->
             LET l == Eval(expr.left, table, row, ctx)
                 r == Eval(expr.right, table, row, ctx)
             IN  CASE expr.op = "+" -> l + r
                   [] expr.op = "*" -> l * r
                   [] expr.op = "=" -> IF l = r THEN 1 ELSE 0
                   [] expr.op = "<" -> IF l < r THEN 1 ELSE 0
                   [] expr.op = "AND" -> IF l # 0 /\ r # 0 THEN 1 ELSE 0

dual(ctx) == Ret(Table(<<>>, << <<>> >>), Issue(ctx, "dual"))

add_table_to_columns_rename(table, alias) ==
    Table([i \in 1..Len(table.columns) |-> column_set_table(table.columns[i], alias)],
          table.rows)

add_table_to_columns(table, alias, ctx) ==
    Ret(add_table_to_columns_rename(table, alias), Issue(ctx, "add_table_to_columns"))

get_table(sc, name, alias, ctx) ==
    LET logged == Log(ctx, [op |-> "get_table", sel |-> ctx.sel, name |-> name,
                            found |-> IF name \in DOMAIN sc THEN sc[name] ELSE NoNode])
    IN  IF name \notin DOMAIN sc THEN Fail("TableNotFound", logged)
        ELSE IF "columns" \notin DOMAIN sc[name] THEN Fail("NotATable", logged)
        ELSE Ret(add_table_to_columns_rename(sc[name],
                     IF alias = None THEN name ELSE alias), logged)

filter_table(table, predicate, ctx) ==
    Checked(EvalError(predicate, table, ctx),
            Ret(Table(table.columns,
                      SelectSeq(table.rows,
                          LAMBDA row : Eval(predicate, table, row, ctx) # 0)),
                Issue(ctx, "filter_table")),
            Issue(ctx, "filter_table"))

\* the names of the output columns: name_generator.get of every alias
RECURSIVE OutputNames(_, _, _, _)
OutputNames(aliases, i, acc, ng) ==
    IF i > Len(aliases) THEN [val |-> acc, ng |-> ng]
    ELSE LET got == UniqueNameGenerator_get(ng, aliases[i])
         IN  OutputNames(aliases, i + 1, Append(acc, got.val), got.ng)

EntryAlias(col) == IF col.tag = "Column" THEN col.alias ELSE col.name

EntryValue(col) == IF col.tag = "Column" THEN col.value ELSE col

FirstError(errs) ==
    LET bad == {i \in 1..Len(errs) : errs[i] # ""}
    IN  IF bad = {} THEN "" ELSE errs[Min(bad)]

\* the table of the given column names and rows, the names recorded in the
\* name generator
Named(names, rows, ctx) == Ret(Table(names.val, rows), [ctx EXCEPT !.ng = names.ng])

transform(table, columns, ctx) ==
    Checked(FirstError([i \in 1..Len(columns) |->
                           EvalError(EntryValue(columns[i]), table, ctx)]),
            Named(OutputNames([i \in 1..Len(columns) |-> EntryAlias(columns[i])],
                              1, <<>>, ctx.ng),
                  [r \in 1..Len(table.rows) |->
                      [i \in 1..Len(columns) |->
                          Eval(EntryValue(columns[i]), table, table.rows[r], ctx)]],
                  Issue(ctx, "transform")),
            Issue(ctx, "transform"))

RECURSIVE SumOf(_)
SumOf(values) == IF values = <<>> THEN 0 ELSE values[1] + SumOf(Tail(values))

SeqRange(values) == {values[i] : i \in 1..Len(values)}

AggregateFunctions == {Lower(SumName), Lower(MinName), Lower(MaxName), CountName}

ApplyAggregate(func, values) ==
    CASE Lower(func) = Lower(SumName) -> SumOf(values)
      [] Lower(func) = Lower(MinName) -> Min(SeqRange(values))
      [] Lower(func) = Lower(MaxName) -> Max(SeqRange(values))
      [] Lower(func) = CountName -> Len(values)

AggregateError(col, table, ctx) ==
    IF col.tag # "Column" \/ col.value.tag # "CallSetFunction" THEN "CannotAggregate"
    ELSE IF Lower(col.value.func) \notin AggregateFunctions THEN "UnknownAggregate"
    ELSE IF Len(col.value.args) # 1 THEN "CannotAggregate"
    ELSE EvalError(col.value.args[1], table, ctx)

\* the distinct elements of a sequence, in the order of their first occurrence
RECURSIVE Distinct(_)
Distinct(seq) ==
    IF seq = <<>> THEN <<>>
    ELSE LET front == Distinct(SubSeq(seq, 1, Len(seq) - 1))
             last == seq[Len(seq)]
         IN  IF last \in SeqRange(front) THEN front ELSE Append(front, last)

\* the values of the group-by columns in a row
GroupKey(row, key_at) == [i \in 1..Len(key_at) |-> row[key_at[i]]]

GroupKeys(table, key_at) ==
    Distinct([r \in 1..Len(table.rows) |-> GroupKey(table.rows[r], key_at)])

GroupRows(table, key_at, key) ==
    SelectSeq(table.rows, LAMBDA row : GroupKey(row, key_at) = key)

AggregateValue(col, table, rows, ctx) ==
    ApplyAggregate(col.value.func,
                   [r \in 1..Len(rows) |-> Eval(col.value.args[1], table, rows[r], ctx)])

\* one row per group, the groups in the order their keys are first seen
AggregateRows(table, agg_columns, key_at, keys, ctx) ==
    [k \in 1..Len(keys) |->
        keys[k] \o [i \in 1..Len(agg_columns) |->
                       AggregateValue(agg_columns[i], table,
                                      GroupRows(table, key_at, keys[k]), ctx)]]

Aggregated(table, agg_columns, group_by, key_at, ctx) ==
    Named(OutputNames([i \in 1..Len(group_by) |-> group_by[i].alias]
                      \o [i \in 1..Len(agg_columns) |-> EntryAlias(agg_columns[i])],
                      1, <<>>, ctx.ng),
          AggregateRows(table, agg_columns, key_at, GroupKeys(table, key_at), ctx),
          IssueAggregate(ctx, group_by))

aggregate(table, agg_columns, group_by, ctx) ==
    Checked(FirstError([i \in 1..Len(group_by) |->
                           ResolveError(table, group_by[i].alias, ctx)]
                       \o [i \in 1..Len(agg_columns) |->
                              AggregateError(agg_columns[i], table, ctx)]),
            Aggregated(table, agg_columns, group_by,
                       [i \in 1..Len(group_by) |->
                           ResolveIndex(table, group_by[i].alias, ctx)],
                       ctx),
            IssueAggregate(ctx, group_by))

\* row a sorts before row b under the keys at[1..] with their directions
RECURSIVE RowBefore(_, _, _, _, _)
RowBefore(a, b, at, ascending, i) ==
    IF i > Len(at) THEN FALSE
    ELSE IF a[at[i]] = b[at[i]] THEN RowBefore(a, b, at, ascending, i + 1)
    ELSE IF ascending[i] THEN a[at[i]] < b[at[i]] ELSE a[at[i]] > b[at[i]]

\* a stable insertion sort
RECURSIVE SortRows(_, _, _)
SortRows(rows, at, ascending) ==
    IF rows = <<>> THEN <<>>
    ELSE LET front == SortRows(SubSeq(rows, 1, Len(rows) - 1), at, ascending)
             last == rows[Len(rows)]
             after == {i \in 1..Len(front) : RowBefore(last, front[i], at, ascending, 1)}
             pos == IF after = {} THEN Len(front) + 1 ELSE Min(after)
         IN  SubSeq(front, 1, pos - 1) \o <<last>> \o SubSeq(front, pos, Len(front))

sort_values(table, names, ascending, ctx) ==
    IF \E i \in 1..Len(names) : ColumnIndices(table, names[i]) = {}
    THEN Fail("ColumnNotFound", Issue(ctx, "sort_values"))
    ELSE Ret(Table(table.columns,
                   SortRows(table.rows,
                            [i \in 1..Len(names) |-> Min(ColumnIndices(table, names[i]))],
                            ascending)),
             Issue(ctx, "sort_values"))

NoLimit == -1

limit_offset(table, limit, offset, ctx) ==
    LET first == IF offset = NoLimit THEN 1 ELSE offset + 1
        last == IF limit = NoLimit THEN Len(table.rows)
                ELSE IF first + limit - 1 < Len(table.rows) THEN first + limit - 1
                ELSE Len(table.rows)
    IN  Ret(Table(table.columns, SubSeq(table.rows, first, last)),
            Issue(ctx, "limit_offset"))

drop_duplicates(table, ctx) ==
    Ret(Table(table.columns, Distinct(table.rows)), Issue(ctx, "drop_duplicates"))

(***************************************************************************)
(* The statement executor, executor/_executor.py.  execute_ast returns the *)
(* value (or the error), the context and the mapping the caller passed as  *)
(* scope, as the call leaves it.                                           *)
(***************************************************************************)
Select(cte, from_clause, columns, where_clause, group_by_clause, having_clause, order_by_clause, limit_clause, offset_clause, quantifier) ==
    [tag |-> "Select", cte |-> cte, from_clause |-> from_clause, columns |-> columns,
     where_clause |-> where_clause, group_by_clause |-> group_by_clause,
     having_clause |-> having_clause, order_by_clause |-> order_by_clause,
     limit_clause |-> limit_clause, offset_clause |-> offset_clause,
     quantifier |-> quantifier]

FromClause(tables) == [tag |-> "FromClause", tables |-> tables]

TableRef(schema, name, alias) ==
    [tag |-> "TableRef", schema |-> schema, name |-> name, alias |-> alias]

SubQuery(query, alias) == [tag |-> "SubQuery", query |-> query, alias |-> alias]

OrderBy(value, order) == [tag |-> "OrderBy", value |-> value, order |-> order]

DropTable(names) == [tag |-> "DropTable", names |-> names]

CreateTableAs(name, query) == [tag |-> "CreateTableAs", name |-> name, query |-> query]

Join(left, right, how, on) ==
    [tag |-> "Join", left |-> left, right |-> right, how |-> how, on |-> on]

TableFunction(func, args, alias) ==
    [tag |-> "TableFunction", func |-> func, args |-> args, alias |-> alias]

Lateral(table) == [tag |-> "Lateral", table |-> table]

String(value) == [tag |-> "String", value |-> value]

Show(args) == [tag |-> "Show", args |-> args]

CopyFrom(name, filename, options) ==
    [tag |-> "CopyFrom", name |-> name, filename |-> filename, options |-> options]

CopyTo(name, filename, options) ==
    [tag |-> "CopyTo", name |-> name, filename |-> filename, options |-> options]

NoQuantifier == "None"

Done(r, sc) == [ok |-> r.ok, err |-> r.err, val |-> r.val, ctx |-> r.ctx, scope |-> sc]

\* scope[key] = val and del scope[key] on a dict
dict_set(mapping, key, val) == (key :> val) @@ mapping

dict_del(mapping, key) == [k \in (DOMAIN mapping) \ {key} |-> mapping[k]]

(***************************************************************************)
(* More of the backend, by the contracts of the table-operation interface: *)
(* the relational join, the lateral join (for each row of the left table   *)
(* the function is evaluated on the row's values and the results are       *)
(* concatenated in row order), table-valued functions and the bulk load    *)
(* and store.  A registered function is one of the functions below; its    *)
(* result columns are named by position.                                   *)
(***************************************************************************)
\* the table-valued functions: repeat yields the row as often as its first
\* value says, total one row holding the sum of the values
RECURSIVE RowSum(_, _)
RowSum(row, i) == IF i > Len(row) THEN 0 ELSE row[i] + RowSum(row, i + 1)

LateralFunctions == {"repeat", "total"}

ApplyLateral(func, row) ==
    IF func = "repeat" THEN [k \in 1..row[1] |-> row]
    ELSE << <<RowSum(row, 1)>> >>

\* the rows of the parts, one part after the other
RECURSIVE ConcatParts(_, _)
ConcatParts(parts, i) ==
    IF i > Len(parts) THEN <<>> ELSE parts[i] \o ConcatParts(parts, i + 1)

\* the rows of left x right, the rows of left in order, those of right within
ProductRows(left, right) ==
    [k \in 1..(Len(left.rows) * Len(right.rows)) |->
        left.rows[((k - 1) \div Len(right.rows)) + 1]
        \o right.rows[((k - 1) % Len(right.rows)) + 1]]

join_rows(product, on, ctx) ==
    Checked(EvalError(on, product, ctx),
            Ret(Table(product.columns,
                      SelectSeq(product.rows,
                          LAMBDA row : Eval(on, product, row, ctx) # 0)),
                Issue(ctx, "join")),
            Issue(ctx, "join"))

\* model.join: the rows of the product that satisfy the condition; the
\* contract covers the inner join
join(left, right, on, how, ctx) ==
    IF how # "inner" THEN Fail("UnknownJoinKind", Issue(ctx, "join"))
    ELSE join_rows(Table(left.columns \o right.columns, ProductRows(left, right)),
                   on, ctx)

\* the number of columns a function returns for n arguments
FunctionWidth(func, n) == IF func = "repeat" THEN n ELSE 1

\* "" when the function can be called with these arguments on every row
FunctionError(registry, func, args, table, ctx) ==
    IF func \notin DOMAIN registry THEN "UnknownFunction"
    ELSE IF registry[func] = "repeat" /\ Len(args) = 0 THEN "TypeError"
    ELSE FirstError([i \in 1..Len(args) |-> EvalError(args[i], table, ctx)])

\* the result columns of a function, named by position under the alias
FunctionColumns(func, n, alias) ==
    [i \in 1..FunctionWidth(func, n) |-> column_from_parts(alias, Decimal(i - 1))]

\* the rows the function yields for one row of the table
FunctionRows(func, args, table, row, ctx) ==
    ApplyLateral(func, [i \in 1..Len(args) |-> Eval(args[i], table, row, ctx)])

\* the table of the function's rows for every row of the table, in row order
lateral_table(table, func, args, alias, ctx) ==
    Ret(Table(FunctionColumns(func, Len(args), alias),
              ConcatParts([r \in 1..Len(table.rows) |->
                             FunctionRows(func, args, table, table.rows[r], ctx)], 1)),
        ctx)

\* lateral, the alias resolved by the name generator call that returned got
lateral_named(table, func, args, got, ctx) ==
    Checked(FunctionError(ctx.model.lateral_functions, func, args, table, ctx),
            lateral_table(table, ctx.model.lateral_functions[func], args, got.val,
                          [ctx EXCEPT !.ng = got.ng]),
            ctx)

\* model.lateral
model_lateral(table, func, args, alias, ctx) ==
    lateral_named(table, func, args, UniqueNameGenerator_get(ctx.ng, alias),
                  Issue(ctx, "lateral"))

\* model.eval_table_valued: the function on its arguments, outside a table
eval_table_valued(node, sc, ctx) ==
    Checked(FunctionError(ctx.model.table_functions, node.func, node.args,
                          dual(ctx).val, ctx),
            lateral_table(dual(ctx).val, ctx.model.table_functions[node.func],
                          node.args, node.alias, Issue(ctx, "eval_table_valued")),
            Issue(ctx, "eval_table_valued"))

\* model.copy_from: binds name to the table the file holds
copy_from(sc, name, filename, options, ctx) ==
    LET logged == Log(ctx, [op |-> "copy_from", sel |-> ctx.sel, name |-> name,
                            filename |-> filename, options |-> options])
    IN  IF filename \notin DOMAIN ctx.files THEN Done(Fail("FileNotFound", logged), sc)
        ELSE Done(Ret(NoNode, logged), dict_set(sc, name, ctx.files[filename]))

\* model.copy_to: writes the table bound to name to the file
copy_to(sc, name, filename, options, ctx) ==
    LET logged == Log(ctx, [op |-> "copy_to", sel |-> ctx.sel, name |-> name,
                            filename |-> filename, options |-> options])
    IN  IF name \notin DOMAIN sc THEN Done(Fail("TableNotFound", logged), sc)
        ELSE Done(Ret(NoNode, [logged EXCEPT
                                  !.files = dict_set(@, filename, sc[name])]), sc)

\* The frame of one execute_ast_select call: its locals.  local is the
\* mapping its variable scope refers to, shared whether that mapping is the
\* caller's own object.
Frame(node, sc, ctx) ==
    [ok |-> TRUE, err |-> "", node |-> node, local |-> sc, shared |-> TRUE,
     table |-> NoNode, columns |-> <<>>, group_by |-> <<>>, levels |-> <<>>,
     ctx |-> ctx]

Failed(f, kind, ctx) == [f EXCEPT !.ok = FALSE, !.err = kind, !.ctx = ctx]

\* table = <the call that returned r>
Assigned(f, r) ==
    IF ~r.ok THEN Failed(f, r.err, r.ctx)
    ELSE [f EXCEPT !.table = r.val, !.ctx = r.ctx]

\* scope = scope.copy(), without the copy
dict_copy_aliased(f) == f

\* scope = scope.copy()
dict_copy(f) == [f EXCEPT !.shared = FALSE]

RECURSIVE execute_ast(_, _, _)

\* scope[cte.alias] = <the call that returned r>
bind_cte(f, cte, r) ==
    IF ~r.ok THEN [Failed(f, r.err, r.ctx) EXCEPT !.local = r.scope]
    ELSE [f EXCEPT !.local = dict_set(r.scope, cte.alias, r.val),
                   !.ctx = Log(r.ctx, [op |-> "bind_cte", sel |-> r.ctx.sel,
                                       alias |-> cte.alias, table |-> r.val])]

\* the loop over node.cte[i..]
RECURSIVE select_cte_from(_, _)
select_cte_from(f, i) ==
    IF ~f.ok \/ i > Len(f.node.cte.items) THEN f
    ELSE select_cte_from(bind_cte(f, f.node.cte.items[i],
                                  execute_ast(f.node.cte.items[i], f.local, f.ctx)),
                         i + 1)

select_cte(f) ==
    IF f.node.cte.tag = "None" THEN f ELSE select_cte_from(dict_copy(f), 1)

\* eval_string_literal: the text between the quotes
eval_string_literal(value) ==
    IF SubSeq(value, 1, Min({1, Len(value)})) # <<"'">> THEN Raise("ValueError")
    ELSE Ok(SubSeq(value, 2, Len(value) - 1))

(***************************************************************************)
(* The conjuncts of the WHERE clause a join takes.  Origin, flatten_ands,  *)
(* determine_origin and and_join are imported from _util.py and not part   *)
(* of the sources: a conjunct counts as left or right when all its column  *)
(* references resolve on that side only, as ambigious when they resolve on *)
(* both sides, and as unknown when one resolves on neither or there is     *)
(* none; and_join is the conjunction, of no conjunct the condition TRUE.   *)
(***************************************************************************)
RECURSIVE flatten_ands(_)
flatten_ands(node) ==
    IF node.tag = "BinaryOp" /\ node.op = "AND"
    THEN flatten_ands(node.left) \o flatten_ands(node.right)
    ELSE <<node>>

RECURSIVE and_join_from(_, _, _)
and_join_from(ops, i, acc) ==
    IF i > Len(ops) THEN acc
    ELSE and_join_from(ops, i + 1, BinaryOp("AND", acc, ops[i]))

and_join(ops) == IF ops = <<>> THEN Bool(TRUE) ELSE and_join_from(ops, 2, ops[1])

\* the column references of an expression, as the name generator names them
ReferencedNames(op, ng) ==
    {UniqueNameGenerator_get(ng, n.name).val : n \in {x \in walk(op) : x.tag = "Name"}}

OriginOf(names, left_columns, right_columns) ==
    IF names = {}
       \/ \E n \in names : /\ normalize_col_ref(n, left_columns, TRUE).val = None
                            /\ normalize_col_ref(n, right_columns, TRUE).val = None
    THEN "unknown"
    ELSE IF \A n \in names : normalize_col_ref(n, right_columns, TRUE).val = None
    THEN "left"
    ELSE IF \A n \in names : normalize_col_ref(n, left_columns, TRUE).val = None
    THEN "right"
    ELSE "ambigious"

determine_origin(op, ng, left_columns, right_columns) ==
    IF \E n \in ReferencedNames(op, ng) :
           \/ ~normalize_col_ref(n, left_columns, TRUE).ok
           \/ ~normalize_col_ref(n, right_columns, TRUE).ok
    THEN Raise("AmbiguousColumn")
    ELSE Ok(OriginOf(ReferencedNames(op, ng), left_columns, right_columns))

\* the conjuncts ops[i..] whose origin is left, right or ambigious
RECURSIVE join_conjuncts(_, _, _, _, _, _)

join_conjunct(ops, ng, left_columns, right_columns, i, acc, origin) ==
    IF ~origin.ok THEN origin
    ELSE join_conjuncts(ops, ng, left_columns, right_columns, i + 1,
                        IF origin.val \in {"left", "right", "ambigious"}
                        THEN Append(acc, ops[i]) ELSE acc)

join_conjuncts(ops, ng, left_columns, right_columns, i, acc) ==
    IF i > Len(ops) THEN Ok(and_join(acc))
    ELSE join_conjunct(ops, ng, left_columns, right_columns, i, acc,
                       determine_origin(ops[i], ng, left_columns, right_columns))

\* cond of execute_from: the conjuncts of the WHERE clause for this join, or
\* 1 = 1 without a WHERE clause
join_condition(node, ng, left_columns, right_columns) ==
    IF node.where_clause.tag = "None"
    THEN Ok(BinaryOp("=", Integer(1), Integer(1)))
    ELSE join_conjuncts(flatten_ands(node.where_clause), ng, left_columns,
                        right_columns, 1, <<>>)

\* current = execute_ast(from_clause.tables[0], ...), the call having returned r
from_table(f, r) == [Assigned(f, r) EXCEPT !.local = r.scope]

\* current = model.join(current, right, cond, 'inner', ...), cond computed
from_joined(f, right, cond, ctx) ==
    IF ~cond.ok THEN Failed(f, cond.err, ctx)
    ELSE Assigned(f, join(f.table, right, cond.val, "inner", ctx))

\* right = execute_ast(other, ...), the call having returned r
from_join(f, r) ==
    IF ~r.ok THEN [Failed(f, r.err, r.ctx) EXCEPT !.local = r.scope]
    ELSE from_joined([f EXCEPT !.local = r.scope], r.val,
                     join_condition(f.node, r.ctx.ng, f.table.columns, r.val.columns),
                     r.ctx)

\* current = model.lateral(...), the alias being the symbol the Unique()
\* call returned
from_lateral_unique(f, table, u) ==
    Assigned(f, model_lateral(f.table, table.func, table.args, u.val, u.ctx))

\* the Lateral branch of the loop; the message of the NotImplementedError
\* reads node.table, which a Select does not have
from_lateral(f, other) ==
    IF other.table.tag # "TableFunction" THEN Failed(f, "AttributeError", f.ctx)
    ELSE IF other.table.alias = None THEN from_lateral_unique(f, other.table, NewUnique(f.ctx))
    ELSE Assigned(f, model_lateral(f.table, other.table.func, other.table.args,
                                   other.table.alias, f.ctx))

\* the loop over from_clause.tables[1:], from its table i on
RECURSIVE execute_from_rest(_, _)
execute_from_rest(f, i) ==
    IF ~f.ok \/ i > Len(f.node.from_clause.tables) THEN f
    ELSE IF f.node.from_clause.tables[i].tag = "Lateral"
    THEN execute_from_rest(from_lateral(f, f.node.from_clause.tables[i]), i + 1)
    ELSE execute_from_rest(
             from_join(f, execute_ast(f.node.from_clause.tables[i], f.local, f.ctx)),
             i + 1)

execute_from(f) ==
    IF Len(f.node.from_clause.tables) = 0 THEN Failed(f, "IndexError", f.ctx)
    ELSE execute_from_rest(
             from_table(f, execute_ast(f.node.from_clause.tables[1], f.local, f.ctx)),
             2)

select_from(f) ==
    IF ~f.ok THEN f
    ELSE IF f.node.from_clause.tag = "None" THEN Assigned(f, dual(f.ctx))
    ELSE execute_from(f)

HasSetFunction(columns) ==
    \E i \in 1..Len(columns) : \E n \in walk(columns[i]) : n.tag = "CallSetFunction"

\* not node.group_by_clause
NoGroupBy(node) ==
    node.group_by_clause.tag = "None" \/ node.group_by_clause.items = <<>>

\* columns = <the call that returned r>, and the artificial group-by column
normalized_columns(f, r) ==
    IF ~r.ok THEN Failed(f, r.err, r.ctx)
    ELSE IF HasSetFunction(r.val) /\ NoGroupBy(f.node)
    THEN [f EXCEPT !.columns = r.val, !.ctx = r.ctx,
                   !.node.group_by_clause = List(<<Bool(TRUE)>>)]
    ELSE [f EXCEPT !.columns = r.val, !.ctx = r.ctx]

select_columns(f) ==
    IF ~f.ok THEN f
    ELSE normalized_columns(f, normalize_columns(f.table.columns, f.node.columns, f.ctx))

select_where(f) ==
    IF ~f.ok \/ f.node.where_clause.tag = "None" THEN f
    ELSE Assigned(f, filter_table(f.table, f.node.where_clause, f.ctx))

\* SplitResult.chain(aggregate_split(col, group_by) for col in columns)
RECURSIVE split_chain(_, _, _, _, _)

split_chain_extend(columns, group_by, i, acc, r) ==
    IF ~r.ok THEN r
    ELSE split_chain(columns, group_by, i + 1, acc \o r.val, r.ctx)

split_chain(columns, group_by, i, acc, ctx) ==
    IF i > Len(columns) THEN Ret(acc, ctx)
    ELSE split_chain_extend(columns, group_by, i, acc,
                            aggregate_split(columns[i], group_by, ctx))

\* group_by = normalize_group_by(...), the call having returned r
grouped_by(f, r) ==
    IF ~r.ok THEN Failed(f, r.err, r.ctx)
    ELSE [f EXCEPT !.group_by = r.val, !.ctx = r.ctx]

select_group_by(f) ==
    grouped_by(f, normalize_group_by(f.table.columns, f.columns,
                                     f.node.group_by_clause, f.ctx))

\* post_aggregate, aggregate, pre_aggregate = split.by_levels(2)
split_levels(f, levels, ctx) ==
    IF ~levels.ok THEN Failed(f, levels.err, ctx)
    ELSE [f EXCEPT !.levels = levels.val, !.ctx = ctx]

\* split = SplitResult.chain(...), the call having returned r
split_columns(f, r) ==
    IF ~r.ok THEN Failed(f, r.err, r.ctx)
    ELSE split_levels(f, by_levels(r.val, 2), r.ctx)

select_split(f) ==
    IF ~f.ok THEN f
    ELSE split_columns(f, split_chain(f.columns, f.group_by, 1, <<>>, f.ctx))

\* model.transform(table, <the normalize_columns call that returned r>, ...)
transform_normalized(table, r) ==
    IF ~r.ok THEN r ELSE transform(table, r.val, r.ctx)

pre_aggregate_columns_without_group_by(pre_aggregate, group_by) == pre_aggregate

\* pre_aggregate = pre_aggregate + group_by
pre_aggregate_columns(pre_aggregate, group_by) == pre_aggregate \o group_by

select_pre_aggregate(f) ==
    IF ~f.ok THEN f
    ELSE Assigned(f, transform_normalized(f.table,
             normalize_columns(f.table.columns,
                               pre_aggregate_columns(f.levels[3], f.group_by), f.ctx)))

\* model.aggregate(table, aggregate, <the normalize_columns call that returned r>, ...)
aggregate_grouped(table, agg_columns, r) ==
    IF ~r.ok THEN r ELSE aggregate(table, agg_columns, r.val, r.ctx)

\* group_by = normalize_columns(table.columns, group_by), after the
\* normalize_columns call that returned r
aggregate_normalized(table, group_by, r) ==
    IF ~r.ok THEN r
    ELSE aggregate_grouped(table, r.val, normalize_columns(table.columns, group_by, r.ctx))

select_aggregate(f) ==
    IF ~f.ok THEN f
    ELSE Assigned(f, aggregate_normalized(f.table, f.group_by,
             normalize_columns(f.table.columns, f.levels[2], f.ctx)))

select_post_aggregate(f) ==
    IF ~f.ok THEN f
    ELSE Assigned(f, transform_normalized(f.table,
             normalize_columns(f.table.columns, f.levels[1], f.ctx)))

\* the branch of execute_ast_select taken when node.group_by_clause is set
select_grouped(f) ==
    select_post_aggregate(select_aggregate(select_pre_aggregate(
        select_split(select_group_by(f)))))

select_projection(f) ==
    IF ~f.ok THEN f
    ELSE IF f.node.group_by_clause.tag # "None" THEN select_grouped(f)
    ELSE Assigned(f, transform(f.table, f.columns, f.ctx))

select_having_ignored(f) == f

select_having(f) ==
    IF ~f.ok \/ f.node.having_clause.tag = "None" THEN f
    ELSE Failed(f, "HavingNotImplemented", f.ctx)

\* the pattern sort accepts: OrderBy of an Integer or a Name, desc or asc
SortMatches(values) ==
    \A i \in 1..Len(values) :
        /\ values[i].tag = "OrderBy"
        /\ values[i].value.tag \in {"Integer", "Name"}
        /\ values[i].order \in {"desc", "asc"}

SortKey(table, val) ==
    IF val.value.tag = "Integer"
    THEN IF PyIndexOk(table.columns, val.value.value - 1)
         THEN Ok(PyIndex(table.columns, val.value.value - 1))
         ELSE Raise("IndexError")
    ELSE normalize_col_ref(val.value.name, table.columns, FALSE)

\* model.sort_values(table, names, ascending), the keys resolved
sort_keys(table, values, keys, ctx) ==
    Checked(FirstError([i \in 1..Len(values) |-> keys[i].err]),
            sort_values(table, [i \in 1..Len(values) |-> keys[i].val],
                        [i \in 1..Len(values) |-> values[i].order = "asc"], ctx),
            ctx)

sort(table, values, ctx) ==
    IF ~SortMatches(values) THEN Fail("CannotSort", ctx)
    ELSE sort_keys(table, values,
                   [i \in 1..Len(values) |-> SortKey(table, values[i])], ctx)

select_order_by(f) ==
    IF ~f.ok \/ f.node.order_by_clause.tag = "None" THEN f
    ELSE Assigned(f, sort(f.table, f.node.order_by_clause.items, f.ctx))

\* int(clause.value) if clause is not None else None
IntOrNone(clause) == IF clause.tag # "None" THEN clause.value ELSE NoLimit

select_limit_offset(f) ==
    IF ~f.ok \/ (f.node.limit_clause.tag = "None" /\ f.node.offset_clause.tag = "None")
    THEN f
    ELSE Assigned(f, limit_offset(f.table, IntOrNone(f.node.limit_clause),
                                  IntOrNone(f.node.offset_clause), f.ctx))

select_quantifier(f) ==
    IF ~f.ok THEN f
    ELSE IF f.node.quantifier = "distinct" THEN Assigned(f, drop_duplicates(f.table, f.ctx))
    ELSE IF f.node.quantifier # NoQuantifier /\ f.node.quantifier # "all"
    THEN Failed(f, "UnknownQuantifier", f.ctx)
    ELSE f

\* a Select enters with the next identifier; the log tells its operations
\* from those of the Selects around it
select_enter(node, sc, ctx) ==
    Frame(node, sc,
          Log([ctx EXCEPT !.selects = @ + 1, !.sel = ctx.selects + 1],
              [op |-> "select", sel |-> ctx.selects + 1, node |-> node]))

\* return table: the caller sees its own mapping
select_return(f, sc, ctx) ==
    [ok |-> f.ok, err |-> f.err, val |-> IF f.ok THEN f.table ELSE NoNode,
     ctx |-> [f.ctx EXCEPT !.sel = ctx.sel],
     scope |-> IF f.shared THEN f.local ELSE sc]

execute_ast_select(node, sc, ctx) ==
    select_return(
        select_quantifier(select_limit_offset(select_order_by(select_having(
            select_projection(select_where(select_columns(select_from(select_cte(
                select_enter(node, sc, ctx)))))))))),
        sc, ctx)

execute_ast_table_ref(node, sc, ctx) ==
    Done(get_table(sc,
                   IF node.schema # None /\ node.schema # <<>>
                   THEN node.schema \o Dot \o node.name
                   ELSE node.name,
                   node.alias, ctx),
         sc)

\* model.add_table_to_columns(<the call that returned r>, node.alias)
subquery_table(node, r) ==
    IF ~r.ok THEN r
    ELSE Done(add_table_to_columns(r.val, node.alias, r.ctx), r.scope)

execute_ast_subquery(node, sc, ctx) ==
    IF node.alias = None \/ node.alias = <<>>
    THEN Done(Fail("SubqueryNeedsName", ctx), sc)
    ELSE subquery_table(node, execute_ast(node.query, sc, ctx))

\* the loop of execute_drop_table over node.names[i..]
RECURSIVE execute_drop_table_from(_, _, _, _)
execute_drop_table_from(node, sc, ctx, i) ==
    IF i > Len(node.names) THEN Done(Ret(NoNode, ctx), sc)
    ELSE IF node.names[i].name \notin DOMAIN sc
    THEN Done(Fail("KeyError", ctx), sc)
    ELSE execute_drop_table_from(node, dict_del(sc, node.names[i].name), ctx, i + 1)

execute_drop_table(node, sc, ctx) == execute_drop_table_from(node, sc, ctx, 1)

\* scope[node.name.name] = <the call that returned r>
create_table(node, r) ==
    IF ~r.ok THEN r
    ELSE Done(Ret(NoNode, r.ctx), dict_set(r.scope, node.name.name, r.val))

execute_create_table_as(node, sc, ctx) ==
    create_table(node, execute_ast(node.query, sc, ctx))

\* model.join(left, <the call that returned r>, node.on, node.how, ...)
join_right(node, left, r) ==
    IF ~r.ok THEN r
    ELSE Done(join(left.val, r.val, node.on, node.how, r.ctx), r.scope)

\* right = execute_ast(node.right, ...), after the call for left returned
join_left(node, left) ==
    IF ~left.ok THEN left
    ELSE join_right(node, left, execute_ast(node.right, left.scope, left.ctx))

execute_join(node, sc, ctx) == join_left(node, execute_ast(node.left, sc, ctx))

execute_ast_all(node, sc, ctx) == Done(eval_table_valued(node, sc, ctx), sc)

\* the options SHOW knows and their values
ShowConfig ==
    (<< <<"t", "r", "a", "n", "s", "a", "c", "t", "i", "o", "n">>,
        <<"i", "s", "o", "l", "a", "t", "i", "o", "n">>,
        <<"l", "e", "v", "e", "l">> >>
         :> <<"r", "e", "a", "d", " ", "o", "n", "l", "y">>)
    @@ (<< <<"s", "t", "a", "n", "d", "a", "r", "d", "_", "c", "o", "n", "f", "o", "r",
             "m", "i", "n", "g", "_", "s", "t", "r", "i", "n", "g", "s">> >>
         :> <<"o", "n">>)

ValueColumn == <<"v", "a", "l", "u", "e">>

\* model.dual().assign(value=value), dual having returned r
show_value(r, value) ==
    Ret(Table(Append(r.val.columns, ValueColumn),
              [i \in 1..Len(r.val.rows) |-> Append(r.val.rows[i], value)]),
        r.ctx)

execute_show(node, sc, ctx) ==
    IF node.args \notin DOMAIN ShowConfig THEN Done(Fail("UnknownShowOption", ctx), sc)
    ELSE Done(show_value(dual(ctx), ShowConfig[node.args]), sc)

\* {name.name: eval_string_literal(value.value) for name, value in node.options},
\* from option i on
RECURSIVE copy_options(_, _, _)

copy_option(options, i, acc, value) ==
    IF ~value.ok THEN value
    ELSE copy_options(options, i + 1, dict_set(acc, options[i][1].name, value.val))

copy_options(options, i, acc) ==
    IF i > Len(options) THEN Ok(acc)
    ELSE copy_option(options, i, acc, eval_string_literal(options[i][2].value))

\* model.copy_from(scope, node.name.name, <filename>, <options>)
copy_from_file(node, sc, ctx, options, filename) ==
    IF ~options.ok THEN Done(Fail(options.err, ctx), sc)
    ELSE IF ~filename.ok THEN Done(Fail(filename.err, ctx), sc)
    ELSE copy_from(sc, node.name.name, filename.val, options.val, ctx)

execute_copy_from(node, sc, ctx) ==
    copy_from_file(node, sc, ctx, copy_options(node.options, 1, <<>>),
                   eval_string_literal(node.filename.value))

\* model.copy_to(scope, node.name.name, <filename>, <options>)
copy_to_file(node, sc, ctx, options, filename) ==
    IF ~options.ok THEN Done(Fail(options.err, ctx), sc)
    ELSE IF ~filename.ok THEN Done(Fail(filename.err, ctx), sc)
    ELSE copy_to(sc, node.name.name, filename.val, options.val, ctx)

execute_copy_to(node, sc, ctx) ==
    copy_to_file(node, sc, ctx, copy_options(node.options, 1, <<>>),
                 eval_string_literal(node.filename.value))

\* the rule set execute_ast (the dispatch of util/_monadic.py is not part of
\* the sources): the rule of the node's variant; a variant without a rule
\* fails.
execute_ast(node, sc, ctx) ==
    CASE node.tag = "Select" -> execute_ast_select(node, sc, ctx)
      [] node.tag = "Join" -> execute_join(node, sc, ctx)
      [] node.tag = "TableRef" -> execute_ast_table_ref(node, sc, ctx)
      [] node.tag = "SubQuery" -> execute_ast_subquery(node, sc, ctx)
      [] node.tag = "TableFunction" -> execute_ast_all(node, sc, ctx)
      [] node.tag = "Show" -> execute_show(node, sc, ctx)
      [] node.tag = "CopyFrom" -> execute_copy_from(node, sc, ctx)
      [] node.tag = "CopyTo" -> execute_copy_to(node, sc, ctx)
      [] node.tag = "DropTable" -> execute_drop_table(node, sc, ctx)
      [] node.tag = "CreateTableAs" -> execute_create_table_as(node, sc, ctx)
      [] OTHER -> Done(Fail("NoHandler", ctx), sc)

\* remove_table_from_columns of the backend: the column part of every column
remove_table_from_columns(table) ==
    Table([i \in 1..Len(table.columns) |-> column_get_column(table.columns[i])],
          table.rows)

\* if result is not None: result = model.remove_table_from_columns(result)
returned(r) ==
    IF r.ok /\ "columns" \in DOMAIN r.val
    THEN [r EXCEPT !.val = remove_table_from_columns(r.val)]
    ELSE r

\* execute(q, scope, model), after parse(q): a fresh name generator for the
\* statement
execute(node, sc) == returned(execute_ast(node, sc, NewContext))

\* a model given by its name, a str
ModelName(name) == [name |-> name]

\* get_model: a model object is used as it is, a name gives a new model; the
\* two backends share the contract
get_model(model) ==
    IF "name" \notin DOMAIN model THEN Ok(model)
    ELSE IF model.name \in {"pandas", "dask"} THEN Ok(PandasModel)
    ELSE Raise("ValueError")

\* execute after model = get_model(model, basepath), the call having
\* returned m
execute_with(node, sc, m, files) ==
    IF ~m.ok THEN Done(Fail(m.err, NewContext), sc)
    ELSE returned(execute_ast(node, sc, [NewContext EXCEPT !.model = m.val,
                                                          !.files = files]))

\* execute(q, scope, model), the model's basepath holding the given files
execute_model(node, sc, model, files) == execute_with(node, sc, get_model(model), files)

(***************************************************************************)
(* Single SELECT statements over a fixed scope.                            *)
(***************************************************************************)
TableE == <<"e">>

TableM == <<"m">>

AliasC == <<"c">>

AliasS == <<"s">>

ColZ == Name(<<"z">>)

SampleTable == Table(<<ColD.name, ColP.name>>, << <<1, 10>>, <<1, 5>>, <<2, 7>> >>)

SampleScope == (TableE :> SampleTable)

From(name) == FromClause(<<TableRef(None, name, None)>>)

SimpleSelect(from_clause, columns, where_clause) ==
    Select(NoNode, from_clause, columns, where_clause, NoNode, NoNode, NoNode,
           NoNode, NoNode, NoQuantifier)

InnerSelect ==
    SimpleSelect(From(TableE), <<WildCard(None)>>, BinaryOp("<", ColP, Integer(10)))

SelectCtes == {NoNode, List(<<SubQuery(InnerSelect, AliasC)>>)}

SelectFroms ==
    {NoNode, From(TableE), From(TableM), From(AliasC),
     FromClause(<<SubQuery(InnerSelect, AliasS)>>),
     FromClause(<<TableRef(None, TableE, None), SubQuery(InnerSelect, AliasS)>>)}

SelectColumns ==
    { <<Column(ColD, None), Column(CallSetFunction(SumName, <<ColP>>), <<"x">>)>>,
      <<Column(BinaryOp("+", ColP, Integer(1)), None)>>,
      <<WildCard(None)>>,
      <<Column(Integer(1), None)>> }

SelectWheres == {NoNode, BinaryOp("<", ColP, Integer(10)), BinaryOp("<", ColZ, Integer(10))}

SelectGroupBys == {NoNode, List(<<ColD>>)}

SelectHavings == {NoNode, BinaryOp("<", ColP, Integer(10))}

SelectOrderBys ==
    {NoNode, List(<<OrderBy(Integer(1), "desc")>>), List(<<OrderBy(ColZ, "asc")>>)}

SelectLimits == {<<NoNode, NoNode>>, <<Integer(1), NoNode>>, <<NoNode, Integer(1)>>}

SelectQuantifiers == {NoQuantifier, "all", "distinct", "unique"}

SelectNodes ==
    { Select(cte, from_clause, columns, where_clause, group_by_clause, having_clause,
             order_by_clause, limits[1], limits[2], quantifier) :
        cte \in SelectCtes, from_clause \in SelectFroms, columns \in SelectColumns,
        where_clause \in SelectWheres, group_by_clause \in SelectGroupBys,
        having_clause \in SelectHavings, order_by_clause \in SelectOrderBys,
        limits \in SelectLimits, quantifier \in SelectQuantifiers }

InitSelect ==
    /\ call \in {[fn |-> "execute", node |-> node] : node \in SelectNodes}
    /\ result = Pending
    /\ scope = SampleScope
    /\ history = [present |-> DOMAIN SampleScope]

\* execute one statement against the shared scope
Execute(node) ==
    /\ result' = [fn |-> "execute", ret |-> execute(node, scope), before |-> scope]
    /\ scope' = result'.ret.scope

CallExecuteSelect ==
    /\ result = Pending
    /\ Execute(call.node)
    /\ UNCHANGED <<call, history>>

NextSelect == CallExecuteSelect

SpecSelect == InitSelect /\ [][NextSelect]_vars

(***************************************************************************)
(* Claims on the stages of a SELECT, checked under SpecSelect.  The log of *)
(* a statement holds, for every Select node it executed, the node and the  *)
(* backend operations issued on its behalf.                                *)
(***************************************************************************)
IsPrefix(a, b) == Len(a) <= Len(b) /\ a = SubSeq(b, 1, Len(a))

EventsOfSelect(ops, id) ==
    SelectSeq(ops, LAMBDA ev : ev.sel = id /\ ev.op \notin {"select", "bind_cte"})

OpsOfSelect(ops, id) ==
    [i \in 1..Len(EventsOfSelect(ops, id)) |-> EventsOfSelect(ops, id)[i].op]

NodeOfSelect(ops, id) ==
    SelectSeq(ops, LAMBDA ev : ev.sel = id /\ ev.op = "select")[1].node

Present(clause) == clause.tag # "None"

When(cond, op) == IF cond THEN <<op>> ELSE <<>>

CteStages(node) ==
    IF Present(node.cte)
    THEN [i \in 1..Len(node.cte.items) |-> "add_table_to_columns"]
    ELSE <<>>

TableStages(table) ==
    IF table.tag = "TableRef" THEN <<"get_table">> ELSE <<"add_table_to_columns">>

\* the first table, then every further table and its join
RECURSIVE JoinStages(_, _)
JoinStages(tables, i) ==
    IF i > Len(tables) THEN <<>>
    ELSE TableStages(tables[i]) \o When(i > 1, "join") \o JoinStages(tables, i + 1)

FromStages(node) ==
    IF ~Present(node.from_clause) THEN <<"dual">>
    ELSE JoinStages(node.from_clause.tables, 1)

Grouping(node) == Present(node.group_by_clause) \/ HasSetFunction(node.columns)

ProjectionStages(node) ==
    IF Grouping(node) THEN <<"transform", "aggregate", "transform">> ELSE <<"transform">>

FinalStages(node) ==
    IF Present(node.having_clause) THEN <<>>
    ELSE When(Present(node.order_by_clause), "sort_values")
         \o When(Present(node.limit_clause) \/ Present(node.offset_clause), "limit_offset")
         \o When(node.quantifier = "distinct", "drop_duplicates")

Stages(node) ==
    CteStages(node) \o FromStages(node) \o When(Present(node.where_clause), "filter_table")
    \o ProjectionStages(node) \o FinalStages(node)

\* C1: the backend operations of every Select occur in the stage order:
\* FROM resolution or dual, filter_table iff WHERE, transform-aggregate-
\* transform when grouping and one transform otherwise, the HAVING
\* rejection, sort_values iff ORDER BY, limit_offset iff LIMIT or OFFSET,
\* drop_duplicates iff distinct; a Select that fails issued a prefix of
\* them, and one with HAVING fails before sort_values.
C1_StageOrder ==
    result.fn = "execute" =>
        LET ops == result.ret.ctx.ops
        IN  /\ \A id \in 1..result.ret.ctx.selects :
                   /\ IsPrefix(OpsOfSelect(ops, id), Stages(NodeOfSelect(ops, id)))
                   /\ result.ret.ok => OpsOfSelect(ops, id) = Stages(NodeOfSelect(ops, id))
            /\ Present(call.node.having_clause) => ~result.ret.ok
            /\ NodeOfSelect(ops, 1) = call.node

C1_Witness ==
    /\ result.fn = "execute"
    /\ result.ret.ok
    /\ result.ret.ctx.selects = 2
    /\ Present(call.node.where_clause)
    /\ Present(call.node.group_by_clause)
    /\ Present(call.node.order_by_clause)
    /\ Present(call.node.limit_clause)
    /\ call.node.quantifier = "distinct"
    /\ OpsOfSelect(result.ret.ctx.ops, 1)
           = <<"add_table_to_columns", "get_table", "filter_table", "transform",
               "aggregate", "transform", "sort_values", "limit_offset", "drop_duplicates">>

(***************************************************************************)
(* Statements executed one after the other against one shared scope.       *)
(* history.present holds the names that were there at the start or bound   *)
(* by a successful CREATE TABLE AS or COPY FROM and not dropped by a later *)
(* successful DROP TABLE; history.files the files COPY TO has written.     *)
(* The statements run on a model with one table function and one lateral   *)
(* function registered.                                                    *)
(***************************************************************************)
MaxCtes == 2

MaxDropNames == 2

TableT == <<"t">>

TableU == <<"u">>

ColA == Name(<<"a">>)

BaseTable == Table(<<ColA.name>>, << <<1>>, <<2>> >>)

InitialScopes == {(TableT :> BaseTable), (TableT :> BaseTable) @@ (TableU :> BaseTable)}

CteNodes ==
    { SubQuery(SimpleSelect(From(TableT), <<WildCard(None)>>,
                            BinaryOp("<", ColA, Integer(2))), TableT),
      SubQuery(SimpleSelect(From(TableT), <<WildCard(None)>>, NoNode), TableU) }

CteLists == SeqsUpTo(CteNodes, MaxCtes) \ {<<>>}

PlainQueries == {SimpleSelect(From(name), <<WildCard(None)>>, NoNode) : name \in {TableT, TableU}}

CteQueries ==
    { Select(List(ctes), From(name), <<WildCard(None)>>, NoNode, NoNode, NoNode,
             NoNode, NoNode, NoNode, NoQuantifier) :
        ctes \in CteLists, name \in {TableT, TableU} }

RepeatName == <<"r", "e", "p", "e", "a", "t">>

TotalName == <<"t", "o", "t", "a", "l">>

AliasR == <<"r">>

QualifiedA(table) == Name(table \o Dot \o ColA.name)

\* FROM t, u with and without conjuncts for the join, FROM t JOIN u,
\* FROM t, LATERAL repeat(a), FROM total(1, 2)
JoinFroms ==
    {FromClause(<<TableRef(None, TableT, None), TableRef(None, TableU, None)>>),
     FromClause(<<Join(TableRef(None, TableT, None), TableRef(None, TableU, None),
                       "inner", BinaryOp("=", QualifiedA(TableT), QualifiedA(TableU)))>>),
     FromClause(<<TableRef(None, TableT, None),
                  Lateral(TableFunction(RepeatName, <<ColA>>, None))>>),
     FromClause(<<TableRef(None, TableT, None),
                  Lateral(TableFunction(TotalName, <<ColA>>, AliasR))>>),
     FromClause(<<TableFunction(TotalName, <<Integer(1), Integer(2)>>, AliasR)>>)}

\* a conjunct for the join and one that is left to the WHERE stage
JoinWhere ==
    BinaryOp("AND", BinaryOp("=", QualifiedA(TableT), QualifiedA(TableU)),
                    BinaryOp("<", Integer(0), Integer(1)))

JoinQueries ==
    {SimpleSelect(from_clause, <<WildCard(None)>>, NoNode) : from_clause \in JoinFroms}
    \cup {SimpleSelect(FromClause(<<TableRef(None, TableT, None),
                                    TableRef(None, TableU, None)>>),
                       <<WildCard(None)>>, JoinWhere)}

Queries == PlainQueries \cup CteQueries \cup JoinQueries

StatementsModel ==
    [PandasModel EXCEPT !.table_functions = (TotalName :> "total"),
                        !.lateral_functions = (RepeatName :> "repeat")]

FileName == <<"f", ".", "c", "s", "v">>

Quoted(text) == <<"'">> \o text \o <<"'">>

FormatOption ==
    <<Name(<<"f", "o", "r", "m", "a", "t">>), String(Quoted(<<"c", "s", "v">>))>>

\* the file name and the options of a COPY: the name quoted, without and
\* with an option, and, what the parser does not yield, the name unquoted
CopyArguments ==
    {<<String(Quoted(FileName)), <<>> >>,
     <<String(Quoted(FileName)), <<FormatOption>> >>,
     <<String(FileName), <<>> >>}

ShowArguments ==
    (DOMAIN ShowConfig) \cup {<< <<"x">> >>}

\* the inner queries of CREATE TABLE AS
InnerQueries ==
    PlainQueries
    \cup {q \in CteQueries : Len(q.cte.items) = 1 /\ q.from_clause = From(TableT)}

DropLists == SeqsUpTo({Name(TableT), Name(TableU)}, MaxDropNames) \ {<<>>}

NamesOf(names) == {names[i].name : i \in 1..Len(names)}

InitStatements ==
    /\ call = Pending
    /\ result = Pending
    /\ scope \in InitialScopes
    /\ history = [present |-> DOMAIN scope, files |-> NoFiles]

\* execute one statement against the shared scope, on the model and the
\* files of the statements before
ExecuteStatement(node) ==
    /\ call' = [fn |-> "execute", node |-> node]
    /\ result' = [fn |-> "execute",
                  ret |-> execute_model(node, scope, StatementsModel, history.files),
                  before |-> scope]
    /\ scope' = result'.ret.scope

ExecuteSelect ==
    \E node \in Queries :
        /\ ExecuteStatement(node)
        /\ UNCHANGED history

ExecuteCreateTableAs ==
    \E name \in {TableT, TableU}, query \in InnerQueries :
        /\ ExecuteStatement(CreateTableAs(Name(name), query))
        /\ history' = IF result'.ret.ok
                      THEN [history EXCEPT !.present = @ \cup {name}]
                      ELSE history

ExecuteDropTable ==
    \E names \in DropLists :
        /\ ExecuteStatement(DropTable(names))
        /\ history' = IF result'.ret.ok
                      THEN [history EXCEPT !.present = @ \ NamesOf(names)]
                      ELSE history

ExecuteCopyFrom ==
    \E args \in CopyArguments :
        /\ ExecuteStatement(CopyFrom(Name(TableU), args[1], args[2]))
        /\ history' = IF result'.ret.ok
                      THEN [history EXCEPT !.present = @ \cup {TableU}]
                      ELSE history

ExecuteCopyTo ==
    \E args \in CopyArguments :
        /\ ExecuteStatement(CopyTo(Name(TableT), args[1], args[2]))
        /\ history' = [history EXCEPT !.files = result'.ret.ctx.files]

ExecuteShow ==
    \E args \in ShowArguments :
        /\ ExecuteStatement(Show(args))
        /\ UNCHANGED history

NextStatements ==
    \/ ExecuteSelect
    \/ ExecuteCreateTableAs
    \/ ExecuteDropTable
    \/ ExecuteCopyFrom
    \/ ExecuteCopyTo
    \/ ExecuteShow

SpecStatements == InitStatements /\ [][NextStatements]_vars

(***************************************************************************)
(* Claims on the scope, checked under SpecStatements.                      *)
(***************************************************************************)
IsSelectWithCte(node) == node.tag = "Select" /\ Present(node.cte)

\* the table a reference to name at position j of the log has to find: the
\* result of the latest CTE bound to that name, else the caller's table
Visible(ops, j, before) ==
    LET binds == {i \in 1..(j - 1) : ops[i].op = "bind_cte" /\ ops[i].alias = ops[j].name}
    IN  IF binds # {} THEN ops[Max(binds)].table
        ELSE IF ops[j].name \in DOMAIN before THEN before[ops[j].name]
        ELSE NoNode

\* C2: a statement that ends in an error leaves the scope as it was before
\* the statement started.
C2_NoPartialEffectsAsStated ==
    (result.fn = "execute" /\ ~result.ret.ok) => scope = result.before

\* C3: a Select with a CTE list leaves the caller's scope unchanged, a
\* CREATE TABLE AS over such a Select adds its target name only, and inside
\* the statement every reference to a CTE alias finds the result of the
\* latest CTE bound to it.
C3_CteIsolation ==
    result.fn = "execute" =>
        /\ IsSelectWithCte(call.node) => scope = result.before
        /\ (call.node.tag = "CreateTableAs" /\ IsSelectWithCte(call.node.query)) =>
               /\ ~result.ret.ok => scope = result.before
               /\ result.ret.ok =>
                      /\ DOMAIN scope = DOMAIN result.before \cup {call.node.name.name}
                      /\ \A name \in DOMAIN result.before :
                             name # call.node.name.name => scope[name] = result.before[name]
        /\ \A j \in 1..Len(result.ret.ctx.ops) :
               result.ret.ctx.ops[j].op = "get_table" =>
                   result.ret.ctx.ops[j].found
                       = Visible(result.ret.ctx.ops, j, result.before)

C3_Witness ==
    /\ result.fn = "execute"
    /\ result.ret.ok
    /\ IsSelectWithCte(call.node)
    /\ Len(call.node.cte.items) = 2
    /\ TableT \in DOMAIN result.before
    /\ scope = result.before
    /\ \E j \in 1..Len(result.ret.ctx.ops) :
           /\ result.ret.ctx.ops[j].op = "get_table"
           /\ result.ret.ctx.ops[j].name = TableT
           /\ result.ret.ctx.ops[j].sel = 1
           /\ result.ret.ctx.ops[j].found # result.before[TableT]

\* C4: a name is in the scope iff it was there at the start or bound by a
\* successful CREATE TABLE AS and not dropped by a later successful DROP
\* TABLE; CREATE TABLE AS rebinds an existing name to the new result; DROP
\* TABLE of a name that is not in the scope fails.
C4_MembershipAsStated ==
    /\ DOMAIN scope = history.present
    /\ (result.fn = "execute" /\ call.node.tag = "CreateTableAs" /\ result.ret.ok) =>
           scope[call.node.name.name]
               = execute_ast(call.node.query, result.before, NewContext).val
    /\ (result.fn = "execute" /\ call.node.tag = "DropTable"
        /\ ~(NamesOf(call.node.names) \subseteq DOMAIN result.before)) =>
           ~result.ret.ok

(***************************************************************************)
(* Grouped SELECT statements over bounded row sets.                        *)
(***************************************************************************)
MaxRows == 3

StagedRowValues == {<<d, p>> : d \in {1, 2}, p \in {5, 7, 10}}

StagedColumns ==
    {Column(ColD, None)}
    \cup {Column(CallSetFunction(func, <<ColP>>), None) :
             func \in {SumName, MinName, MaxName, CountUpper}}

StagedColumnLists ==
    {<<c>> : c \in StagedColumns}
    \cup {pair \in StagedColumns \X StagedColumns :
             pair[1] # pair[2] /\ Column(ColD, None) \in {pair[1], pair[2]}}

StagedNodes ==
    { Select(NoNode, From(TableE), columns, NoNode, List(<<ColD>>), NoNode, NoNode,
             NoNode, NoNode, NoQuantifier) : columns \in StagedColumnLists }

InitStaged ==
    /\ call \in {[fn |-> "execute", node |-> node] : node \in StagedNodes}
    /\ result = Pending
    /\ scope \in {(TableE :> Table(<<ColD.name, ColP.name>>, rows)) :
                     rows \in SeqsUpTo(StagedRowValues, MaxRows)}
    /\ history = [present |-> DOMAIN scope]

CallExecuteGrouped ==
    /\ result = Pending
    /\ Execute(call.node)
    /\ UNCHANGED <<call, history>>

NextStaged == CallExecuteGrouped

SpecStaged == InitStaged /\ [][NextStaged]_vars

(***************************************************************************)
(* Claims on grouped evaluation, checked under SpecStaged.  The naive      *)
(* evaluation takes the groups in the order their keys are first seen and  *)
(* evaluates every select expression on the rows of the group.             *)
(***************************************************************************)
FirstSeen(rows) == {r \in 1..Len(rows) : \A q \in 1..(r - 1) : rows[q][1] # rows[r][1]}

\* the key of the k-th group
NaiveKey(rows, k) ==
    LET r == CHOOSE n \in FirstSeen(rows) :
                 Cardinality({q \in FirstSeen(rows) : q <= n}) = k
    IN  rows[r][1]

NaiveValue(col, rows, key) ==
    LET group == SelectSeq(rows, LAMBDA row : row[1] = key)
        values == [r \in 1..Len(group) |-> group[r][2]]
    IN  IF col.value = ColD THEN key
        ELSE CASE col.value.func = SumName -> SumOf(values)
               [] col.value.func = MinName ->
                      CHOOSE v \in SeqRange(values) : \A w \in SeqRange(values) : v <= w
               [] col.value.func = MaxName ->
                      CHOOSE v \in SeqRange(values) : \A w \in SeqRange(values) : v >= w
               [] col.value.func = CountUpper -> Len(values)

NaiveRows(node, rows) ==
    [k \in 1..Cardinality(FirstSeen(rows)) |->
        [i \in 1..Len(node.columns) |-> NaiveValue(node.columns[i], rows, NaiveKey(rows, k))]]

\* C6: a grouped Select of group-by keys and single aggregate calls over a
\* column runs transform, aggregate, transform and yields one row per group,
\* in group-encounter order, whose values equal the naive evaluation of
\* every select expression on the rows of the group.
C6_StagedEqualsNaive ==
    result.fn = "execute" =>
        /\ result.ret.ok
        /\ OpsOfSelect(result.ret.ctx.ops, 1)
               = <<"get_table", "transform", "aggregate", "transform">>
        /\ result.ret.val.rows = NaiveRows(call.node, result.before[TableE].rows)

C6_Witness ==
    /\ result.fn = "execute"
    /\ result.before[TableE].rows = << <<1, 10>>, <<1, 5>>, <<2, 7>> >>
    /\ call.node.columns
           = <<Column(ColD, None), Column(CallSetFunction(SumName, <<ColP>>), None)>>
    /\ result.ret.ok
    /\ result.ret.val.rows = << <<1, 15>>, <<2, 7>> >>

(***************************************************************************)
(* The name generator under test.  scope holds the objects: the generator  *)
(* execute creates (original) and the generator the last fix returned      *)
(* (frozen, NoGenerator before the first fix).  history.seen lists the     *)
(* symbols passed to the original, in the order they were first passed;    *)
(* history.at_fix is the original's mapping as the last fix left it.       *)
(***************************************************************************)
MaxSymbols == 3

MaxFix == 2

\* UniqueNameGenerator(names, fixed): a copy of names; ids is None when fixed
UniqueNameGenerator_init(names, fixed) == [names |-> names, ids |-> 0, fixed |-> fixed]

RECURSIVE UniqueNameGenerator_fix_from(_, _, _)
UniqueNameGenerator_fix_from(ng, objs, i) ==
    IF i > Len(objs) THEN [ok |-> TRUE, err |-> "", val |-> None, ng |-> ng]
    ELSE LET r == UniqueNameGenerator_get(ng, objs[i])
         IN  IF ~r.ok THEN r ELSE UniqueNameGenerator_fix_from(r.ng, objs, i + 1)

\* a fix that names nothing before it freezes
UniqueNameGenerator_fix_lazy(ng, objs) ==
    [ok |-> TRUE, err |-> "", val |-> UniqueNameGenerator_init(ng.names, TRUE), ng |-> ng]

\* UniqueNameGenerator.fix: the frozen generator and the generator itself
UniqueNameGenerator_fix(ng, objs) ==
    LET r == UniqueNameGenerator_fix_from(ng, objs, 1)
    IN  IF ~r.ok THEN r
        ELSE [ok |-> TRUE, err |-> "", val |-> UniqueNameGenerator_init(r.ng.names, TRUE),
              ng |-> r.ng]

NoGenerator == [names |-> <<>>, ids |-> 0, fixed |-> FALSE, none |-> TRUE]

Symbols == {UniqueSymbol(k) : k \in 0..(MaxSymbols - 1)}

\* tokens that are no symbols: a column name and a string that reads like a
\* generated name
Literals == {<<"a">>, UniquePrefix \o Decimal(0)}

Tokens == Symbols \cup Literals

RECURSIVE FirstSeenOf(_, _, _)
FirstSeenOf(seen, objs, i) ==
    IF i > Len(objs) THEN seen
    ELSE FirstSeenOf(IF \E k \in 1..Len(seen) : seen[k] = objs[i] THEN seen
                     ELSE Append(seen, objs[i]),
                     objs, i + 1)

InitGenerator ==
    /\ call = Pending
    /\ result = Pending
    /\ scope = [original |-> NewNameGenerator, frozen |-> NoGenerator]
    /\ history = [seen |-> <<>>, at_fix |-> <<>>]

GeneratorGet ==
    \E obj \in Tokens :
        /\ call' = [fn |-> "get", obj |-> obj]
        /\ result' = [fn |-> "get",
                      ret |-> UniqueNameGenerator_get(scope.original, obj),
                      before |-> scope]
        /\ scope' = [scope EXCEPT !.original = result'.ret.ng]
        /\ history' = [history EXCEPT
                          !.seen = IF IsUnique(obj) THEN FirstSeenOf(@, <<obj>>, 1) ELSE @]

GeneratorFix ==
    \E objs \in SeqsUpTo(Symbols, MaxFix) :
        /\ call' = [fn |-> "fix", objs |-> objs]
        /\ result' = [fn |-> "fix",
                      ret |-> UniqueNameGenerator_fix(scope.original, objs),
                      before |-> scope]
        /\ scope' = [original |-> result'.ret.ng, frozen |-> result'.ret.val]
        /\ history' = [seen |-> FirstSeenOf(history.seen, objs, 1),
                       at_fix |-> result'.ret.ng.names]

FrozenGet ==
    /\ scope.frozen # NoGenerator
    /\ \E obj \in Tokens :
        /\ call' = [fn |-> "frozen_get", obj |-> obj]
        /\ result' = [fn |-> "frozen_get",
                      ret |-> UniqueNameGenerator_get(scope.frozen, obj),
                      before |-> scope]
        /\ scope' = [scope EXCEPT !.frozen = result'.ret.ng]
        /\ UNCHANGED history

NextGenerator == GeneratorGet \/ GeneratorFix \/ FrozenGet

SpecGenerator == InitGenerator /\ [][NextGenerator]_vars

(***************************************************************************)
(* Claims on the name generator, checked under SpecGenerator.              *)
(***************************************************************************)
GeneratedName(k) == UniquePrefix \o Decimal(k)

\* the position of a symbol in the order of first sight, counting from 0
SeenIndex(s) == (CHOOSE k \in 1..Len(history.seen) : history.seen[k] = s) - 1

\* C11: every symbol passed to the non-frozen generator so far, and no
\* other, has a name; the k-th distinct symbol seen (from 0) is named
\* "unique-k", so that two symbols never share a name; the counter is the
\* number of symbols seen; a get returns the symbol's name, and returns a
\* token that is no symbol unchanged, leaving mapping and counter alone.
C11_NamesBySight ==
    /\ DOMAIN scope.original.names = {history.seen[k] : k \in 1..Len(history.seen)}
    /\ \A k \in 1..Len(history.seen) :
           scope.original.names[history.seen[k]] = GeneratedName(k - 1)
    /\ \A s, t \in DOMAIN scope.original.names :
           s # t => scope.original.names[s] # scope.original.names[t]
    /\ scope.original.ids = Len(history.seen)
    /\ result.fn = "get" =>
           /\ result.ret.ok
           /\ IsUnique(call.obj) =>
                  result.ret.val = GeneratedName(SeenIndex(call.obj))
           /\ ~IsUnique(call.obj) =>
                  /\ result.ret.val = call.obj
                  /\ scope.original = result.before.original

\* C11: a name, once assigned, never changes on a later call: every call
\* leaves the names it found (result.before) as they were.
C11_NamesKept ==
    result # Pending =>
        \A s \in DOMAIN result.before.original.names :
            /\ s \in DOMAIN scope.original.names
            /\ scope.original.names[s] = result.before.original.names[s]

\* C11 (both parts)
C11_NameGenerator == C11_NamesKept /\ C11_NamesBySight

\* a second get of the first symbol after two more symbols were named, and a
\* literal that reads like a generated name passed through
C11_Witness ==
    /\ result.fn = "get"
    /\ history.seen = <<UniqueSymbol(2), UniqueSymbol(0), UniqueSymbol(1)>>
    /\ call.obj = UniqueSymbol(2)
    /\ result.ret.val = GeneratedName(0)
    /\ result.before.original.ids = 3

C11_LiteralWitness ==
    /\ result.fn = "get"
    /\ call.obj = GeneratedName(0)
    /\ UniqueSymbol(1) \in DOMAIN scope.original.names
    /\ scope.original.names[UniqueSymbol(1)] = GeneratedName(0)
    /\ result.ret.val = GeneratedName(0)

\* C12: fix(symbols) names every given symbol in the original and returns a
\* frozen generator holding the original's mapping of that moment; a get on
\* the frozen generator returns that name for a symbol named by then and
\* fails with UnknownUnique for every other symbol, also one the original
\* has named since; a token that is no symbol is returned unchanged; no get
\* changes the frozen mapping.
C12_FrozenGenerator ==
    /\ result.fn = "fix" =>
           /\ result.ret.ok
           /\ \A i \in 1..Len(call.objs) : call.objs[i] \in DOMAIN scope.original.names
           /\ \A s \in DOMAIN result.before.original.names :
                  scope.original.names[s] = result.before.original.names[s]
           /\ scope.frozen.fixed
           /\ scope.frozen.names = scope.original.names
    /\ scope.frozen # NoGenerator => scope.frozen.names = history.at_fix
    /\ result.fn = "frozen_get" =>
           IF ~IsUnique(call.obj) THEN result.ret.ok /\ result.ret.val = call.obj
           ELSE IF call.obj \in DOMAIN history.at_fix
           THEN /\ result.ret.ok
                /\ result.ret.val = history.at_fix[call.obj]
                /\ result.ret.val = scope.original.names[call.obj]
           ELSE ~result.ret.ok /\ result.ret.err = "UnknownUnique"

\* a symbol the original named after the fix is unknown to the frozen
\* generator, one the fix itself named is known
C12_Witness ==
    /\ result.fn = "frozen_get"
    /\ ~result.ret.ok
    /\ call.obj \in DOMAIN scope.original.names
    /\ call.obj \notin DOMAIN history.at_fix
    /\ history.at_fix # <<>>

C12_KnownWitness ==
    /\ result.fn = "frozen_get"
    /\ result.ret.ok
    /\ IsUnique(call.obj)
    /\ result.ret.val = GeneratedName(1)

(***************************************************************************)
(* The group-by normalisation under test: table t with the columns a and   *)
(* b, with and without the table part in the identifiers, select lists as  *)
(* normalize_columns returns them and as the parser does (dotted alias, no *)
(* alias), and every group-by list of names, expressions and positions.    *)
(***************************************************************************)
ColB == Name(<<"b">>)

ColX == Name(<<"x">>)

APlusOne == BinaryOp("+", ColA, Integer(1))

GroupByTableColumns ==
    {<<ColA.name, ColB.name>>, <<InternalId("t", "a"), InternalId("t", "b")>>}

GroupBySelectLists ==
    {<<>>,
     <<Column(ColA, ColA.name)>>,
     <<Column(ColA, ColX.name)>>,
     <<Column(ColB, ColA.name), Column(APlusOne, ColX.name)>>,
     <<Column(ColA, ColA.name), Column(APlusOne, UniqueSymbol(0))>>,
     <<Column(ColA, Qualified("t", "x")), Column(ColB, None)>>,
     <<Column(ColA, ColX.name), Column(ColB, ColX.name)>>}

GroupByPositions == {Integer(k) : k \in 0..3}

GroupByExpressions ==
    {ColA, ColB, ColX, ColZ, Name(Qualified("t", "a")), Name(Qualified("t", "x")),
     APlusOne, Bool(TRUE), CallSetFunction(SumName, <<ColA>>)}
    \cup GroupByPositions

GroupByLists == {NoNode} \cup {List(g) : g \in SeqsUpTo(GroupByExpressions, MaxGroupBy)}

\* the symbol 0 is taken by the select list
GroupByContext == [NewContext EXCEPT !.uniques = 1]

InitGroupBy ==
    /\ call \in {[fn |-> "normalize_group_by", table_columns |-> tc, columns |-> cols,
                  group_by |-> g] :
                    tc \in GroupByTableColumns, cols \in GroupBySelectLists,
                    g \in GroupByLists}
    /\ result = Pending
    /\ scope = <<>>
    /\ history = <<>>

CallNormalizeGroupBy ==
    /\ result = Pending
    /\ result' = [fn |-> call.fn,
                  ret |-> normalize_group_by(call.table_columns, call.columns,
                                             call.group_by, GroupByContext)]
    /\ UNCHANGED <<call, scope, history>>

NextGroupBy == CallNormalizeGroupBy

SpecGroupBy == InitGroupBy /\ [][NextGroupBy]_vars

(***************************************************************************)
(* Claims on the group-by normalisation, checked under SpecGroupBy.        *)
(***************************************************************************)
\* a name names a table column: a dotted name the identifier of its table
\* and column, a bare one any identifier with that column part
NamesTableColumn(name, table_columns) ==
    \E i \in 1..Len(table_columns) :
        IF Contains(name, Dot)
        THEN table_columns[i] = column_from_parts(StrSplit1(name, Dot)[1], StrSplit1(name, Dot)[2])
        ELSE column_get_column(table_columns[i]) = name

\* the values the select list gives under an alias
AliasedValues(name, columns) ==
    {columns[i].value : i \in {k \in 1..Len(columns) : columns[k].alias = name}}

\* the internal identifier of a dotted or bare alias
InternalOfAlias(name) ==
    IF Contains(name, Dot)
    THEN StrSplit1(name, Dot)[1] \o Separator \o StrSplit1(name, Dot)[2]
    ELSE name

PositionsWithin(group_by, columns) ==
    \A i \in 1..Len(group_by) :
        group_by[i].tag = "Integer" => group_by[i].value \in 1..Len(columns)

\* the expression classified at position i: the value of the select column
\* for a position, the expression itself otherwise
Classified(group_by, columns, i) ==
    IF group_by[i].tag = "Integer" THEN columns[group_by[i].value].value
    ELSE group_by[i]

Unhandled(expr, table_columns, columns) ==
    /\ expr.tag = "Name"
    /\ ~NamesTableColumn(expr.name, table_columns)
    /\ AliasedValues(expr.name, columns) = {}

NormalizedAs(col, expr, table_columns, columns) ==
    IF expr.tag = "Name" /\ NamesTableColumn(expr.name, table_columns)
    THEN col = Column(Name(expr.name), expr.name)
    ELSE IF expr.tag = "Name"
    THEN /\ col.tag = "Column"
         /\ col.value \in AliasedValues(expr.name, columns)
         /\ col.alias = InternalOfAlias(expr.name)
         /\ ~IsUnique(col.alias)
    ELSE /\ col.tag = "Column"
         /\ col.value = expr
         /\ IsUnique(col.alias)
         /\ col.alias \notin {UniqueSymbol(k) : k \in 0..(GroupByContext.uniques - 1)}

\* C13: with every position within the select list, normalize_group_by
\* fails with UnhandledGroupByExpression when some expression is a Name
\* that is neither a table column nor a select-list alias, and otherwise
\* returns one Column per expression, in order: for a Name of a table
\* column Column(Name(name), name), also when the name is an alias; else
\* for a Name that is an alias the aliased value under the alias's internal
\* identifier; else the expression itself under a fresh symbol, with
\* different symbols at different positions.
C13_Precedence ==
    (result.fn = "normalize_group_by" /\ call.group_by # NoNode
     /\ PositionsWithin(call.group_by.items, call.columns)) =>
        LET n == Len(call.group_by.items)
            expr(i) == Classified(call.group_by.items, call.columns, i)
        IN  IF \E i \in 1..n : Unhandled(expr(i), call.table_columns, call.columns)
            THEN ~result.ret.ok /\ result.ret.err = "UnhandledGroupByExpression"
            ELSE /\ result.ret.ok
                 /\ Len(result.ret.val) = n
                 /\ \A i \in 1..n :
                        NormalizedAs(result.ret.val[i], expr(i),
                                     call.table_columns, call.columns)
                 /\ \A i, j \in 1..n :
                        (i # j /\ IsUnique(result.ret.val[i].alias))
                            => result.ret.val[i].alias # result.ret.val[j].alias

\* SELECT a AS x FROM t GROUP BY x, and GROUP BY a where a is a column and
\* the alias of b
C13_Witness ==
    /\ result.fn = "normalize_group_by"
    /\ call.columns = <<Column(ColA, ColX.name)>>
    /\ call.group_by = List(<<ColX>>)
    /\ result.ret.ok
    /\ result.ret.val = <<Column(ColA, ColX.name)>>

C13_ColumnFirstWitness ==
    /\ result.fn = "normalize_group_by"
    /\ call.columns = <<Column(ColB, ColA.name), Column(APlusOne, ColX.name)>>
    /\ call.group_by = List(<<ColA, APlusOne>>)
    /\ result.ret.ok
    /\ result.ret.val = <<Column(ColA, ColA.name), Column(APlusOne, UniqueSymbol(1))>>

\* the group-by list with every position replaced by the value of the
\* select column at that one-based position
Substituted(group_by, columns) ==
    [i \in 1..Len(group_by) |-> Classified(group_by, columns, i)]

\* C19 as stated: a position k with 1 <= k <= n stands for the value of the
\* k-th select column, so that the list normalises as the list with the
\* values in place of the positions does; a list holding a position outside
\* 1..n (0 included) is rejected with an error.
C19_PositionalAsStated ==
    (result.fn = "normalize_group_by" /\ call.group_by # NoNode) =>
        IF PositionsWithin(call.group_by.items, call.columns)
        THEN result.ret = normalize_group_by(call.table_columns, call.columns,
                              List(Substituted(call.group_by.items, call.columns)),
                              GroupByContext)
        ELSE ~result.ret.ok

\* the positions within the select list do behave as stated
C19_PositionsWithin ==
    (result.fn = "normalize_group_by" /\ call.group_by # NoNode
     /\ PositionsWithin(call.group_by.items, call.columns)) =>
        result.ret = normalize_group_by(call.table_columns, call.columns,
                         List(Substituted(call.group_by.items, call.columns)),
                         GroupByContext)

\* GROUP BY 0 under SELECT b AS a, a + 1 AS x groups by a + 1
C19_ZeroIsLast ==
    /\ result.fn = "normalize_group_by"
    /\ call.columns = <<Column(ColB, ColA.name), Column(APlusOne, ColX.name)>>
    /\ call.group_by = List(<<Integer(0)>>)
    /\ result.ret.ok
    /\ result.ret.val = <<Column(APlusOne, UniqueSymbol(1))>>

(***************************************************************************)
(* The lateral join, util/_funcs.py.  An argument is a scalar or a series  *)
(* (a column of the left table); a table-valued function maps the values   *)
(* of one row to a sequence of result rows.  The pandas calls are modelled *)
(* by what they do: a frame built from scalars and series of one length    *)
(* repeats the scalars in every row, iterrows yields the rows in order,    *)
(* and concat of an empty list of parts raises ValueError.                 *)
(***************************************************************************)
MaxArgs == 2

Scalar(value) == [tag |-> "Scalar", value |-> value]

Series(values) == [tag |-> "Series", values |-> values]

is_scalar(a) == a.tag = "Scalar"

\* len of the frame: the length of its first series
DataFrameLen(args) ==
    Len(args[Min({i \in 1..Len(args) : ~is_scalar(args[i])})].values)

\* pd.DataFrame({idx: s for idx, s in enumerate(args)}), as its rows
DataFrame(args) ==
    [r \in 1..DataFrameLen(args) |->
        [i \in 1..Len(args) |->
            IF is_scalar(args[i]) THEN args[i].value ELSE args[i].values[r]]]

\* pd.concat(parts, axis=0, ignore_index=True)
concat(parts) ==
    IF Len(parts) = 0 THEN Raise("ValueError") ELSE Ok(ConcatParts(parts, 1))

\* [func(*row) for _, row in df.iterrows()]
lateral_parts(func, df) == [r \in 1..Len(df) |-> ApplyLateral(func, df[r])]

lateral(func, args) ==
    IF ~(Len(args) > 0 /\ \E i \in 1..Len(args) : ~is_scalar(args[i]))
    THEN Raise("ValueError")
    ELSE concat(lateral_parts(func, DataFrame(args)))

(***************************************************************************)
(* The lateral join under test: up to MaxArgs arguments, the series all of *)
(* one length of up to MaxRows.                                            *)
(***************************************************************************)
LateralValues == {0, 2}

LateralArguments(n) ==
    {Scalar(1)} \cup {Series(s) : s \in {q \in SeqsUpTo(LateralValues, n) : Len(q) = n}}

LateralCalls ==
    {[fn |-> "lateral", func |-> func, args |-> args] :
        func \in LateralFunctions,
        args \in UNION {SeqsUpTo(LateralArguments(n), MaxArgs) : n \in 0..MaxRows}}

InitLateral ==
    /\ call \in LateralCalls
    /\ result = Pending
    /\ scope = <<>>
    /\ history = <<>>

CallLateral ==
    /\ result = Pending
    /\ result' = [fn |-> call.fn, ret |-> lateral(call.func, call.args)]
    /\ UNCHANGED <<call, scope, history>>

NextLateral == CallLateral

SpecLateral == InitLateral /\ [][NextLateral]_vars

(***************************************************************************)
(* Claims on the lateral join, checked under SpecLateral.                  *)
(***************************************************************************)
HasNonScalar(args) == \E i \in 1..Len(args) : args[i].tag = "Series"

\* the number of rows of the left table
LeftRows(args) == Len((CHOOSE a \in {args[i] : i \in 1..Len(args)} : a.tag = "Series").values)

\* the values of row r of the left table, scalars repeated
LeftRow(args, r) ==
    [i \in 1..Len(args) |->
        IF args[i].tag = "Series" THEN args[i].values[r] ELSE args[i].value]

\* the number of result rows of the left rows before row r
RECURSIVE RowsBefore(_, _, _)
RowsBefore(func, args, r) ==
    IF r <= 1 THEN 0
    ELSE RowsBefore(func, args, r - 1) + Len(ApplyLateral(func, LeftRow(args, r - 1)))

\* rows is func(row_1), ..., func(row_n) one after the other
IsFlatMap(rows, func, args) ==
    /\ Len(rows) = RowsBefore(func, args, LeftRows(args) + 1)
    /\ \A r \in 1..LeftRows(args) :
           \A k \in 1..Len(ApplyLateral(func, LeftRow(args, r))) :
               rows[RowsBefore(func, args, r) + k] = ApplyLateral(func, LeftRow(args, r))[k]

\* C14 as stated: with at least one non-scalar argument, of any length
\* n >= 0, lateral returns the results of func on the rows one after the
\* other in row order (a row with no result rows adds nothing); without a
\* non-scalar argument it fails.
C14_FlatMapAsStated ==
    result.fn = "lateral" =>
        IF HasNonScalar(call.args)
        THEN result.ret.ok /\ IsFlatMap(result.ret.val, call.func, call.args)
        ELSE ~result.ret.ok

\* on a left table of at least one row lateral is the flat-map
C14_FlatMapOfRows ==
    (result.fn = "lateral" /\ HasNonScalar(call.args) /\ LeftRows(call.args) >= 1) =>
        result.ret.ok /\ IsFlatMap(result.ret.val, call.func, call.args)

C14_RowsWitness ==
    /\ result.fn = "lateral"
    /\ call.func = "repeat"
    /\ call.args = <<Series(<<2, 0, 2>>), Scalar(1)>>
    /\ result.ret = Ok(<< <<2, 1>>, <<2, 1>>, <<2, 1>>, <<2, 1>> >>)

\* a left table without rows: no parts to concatenate
C14_EmptyLeftTable ==
    /\ result.fn = "lateral"
    /\ call.args = <<Series(<<>>)>>
    /\ result.ret = Raise("ValueError")

(***************************************************************************)
(* The persistent Executor, executor/_executor.py.  Its scope attribute is *)
(* None or a mapping of table names to tables.                             *)
(***************************************************************************)
NoScope == [none |-> TRUE, tables |-> <<>>]

Mapping(tables) == [none |-> FALSE, tables |-> tables]

\* Executor.__init__: the value of self.scope
Executor_init(scope_arg) == IF scope_arg.none THEN scope_arg ELSE scope_arg

\* Executor.update: self.scope.update(tables)
Executor_update(self_scope, tables) ==
    IF self_scope.none THEN [ret |-> Raise("AttributeError"), scope |-> self_scope]
    ELSE [ret |-> Ok(None), scope |-> Mapping(tables @@ self_scope.tables)]

\* the names bound in the module of Executor.execute: its imports, its
\* definitions and the names every module has
ModuleGlobals ==
    {
      <<"E", "x", "e", "c", "u", "t", "o", "r">>,
      <<"M", "o", "d", "e", "l">>,
      <<"O", "r", "i", "g", "i", "n">>,
      <<"S", "p", "l", "i", "t", "R", "e", "s", "u", "l", "t">>,
      <<"U", "n", "i", "q", "u", "e">>,
      <<"U", "n", "i", "q", "u", "e", "N", "a", "m", "e", "G", "e", "n", "e", "r", "a", "t", "o", "r">>,
      <<"_", "_", "b", "u", "i", "l", "t", "i", "n", "s", "_", "_">>,
      <<"_", "_", "c", "a", "c", "h", "e", "d", "_", "_">>,
      <<"_", "_", "d", "o", "c", "_", "_">>,
      <<"_", "_", "f", "i", "l", "e", "_", "_">>,
      <<"_", "_", "l", "o", "a", "d", "e", "r", "_", "_">>,
      <<"_", "_", "n", "a", "m", "e", "_", "_">>,
      <<"_", "_", "p", "a", "c", "k", "a", "g", "e", "_", "_">>,
      <<"_", "_", "s", "p", "e", "c", "_", "_">>,
      <<"_", "l", "o", "g", "g", "e", "r">>,
      <<"a">>,
      <<"a", "b", "s", "o", "l", "u", "t", "e", "_", "i", "m", "p", "o", "r", "t">>,
      <<"a", "g", "g", "r", "e", "g", "a", "t", "e", "_", "s", "p", "l", "i", "t">>,
      <<"a", "g", "g", "r", "e", "g", "a", "t", "e", "_", "s", "p", "l", "i", "t", "_", "c", "a", "l", "l", "_", "s", "e", "t", "_", "f", "u", "n", "c", "t", "i", "o", "n">>,
      <<"a", "g", "g", "r", "e", "g", "a", "t", "e", "_", "s", "p", "l", "i", "t", "_", "c", "o", "l", "u", "m", "n">>,
      <<"a", "g", "g", "r", "e", "g", "a", "t", "e", "_", "s", "p", "l", "i", "t", "_", "n", "a", "m", "e">>,
      <<"a", "n", "d", "_", "j", "o", "i", "n">>,
      <<"c", "o", "l", "u", "m", "n", "_", "g", "e", "t", "_", "t", "a", "b", "l", "e">>,
      <<"d", "e", "t", "e", "r", "m", "i", "n", "e", "_", "o", "r", "i", "g", "i", "n">>,
      <<"d", "i", "v", "i", "s", "i", "o", "n">>,
      <<"e", "v", "a", "l", "_", "s", "t", "r", "i", "n", "g", "_", "l", "i", "t", "e", "r", "a", "l">>,
      <<"e", "x", "e", "c", "u", "t", "e">>,
      <<"e", "x", "e", "c", "u", "t", "e", "_", "a", "s", "t">>,
      <<"e", "x", "e", "c", "u", "t", "e", "_", "a", "s", "t", "_", "a", "l", "l">>,
      <<"e", "x", "e", "c", "u", "t", "e", "_", "a", "s", "t", "_", "s", "e", "l", "e", "c", "t">>,
      <<"e", "x", "e", "c", "u", "t", "e", "_", "a", "s", "t", "_", "s", "u", "b", "q", "u", "e", "r", "y">>,
      <<"e", "x", "e", "c", "u", "t", "e", "_", "a", "s", "t", "_", "t", "a", "b", "l", "e", "_", "r", "e", "f">>,
      <<"e", "x", "e", "c", "u", "t", "e", "_", "c", "o", "p", "y", "_", "f", "r", "o", "m">>,
      <<"e", "x", "e", "c", "u", "t", "e", "_", "c", "o", "p", "y", "_", "t", "o">>,
      <<"e", "x", "e", "c", "u", "t", "e", "_", "c", "r", "e", "a", "t", "e", "_", "t", "a", "b", "l", "e", "_", "a", "s">>,
      <<"e", "x", "e", "c", "u", "t", "e", "_", "d", "r", "o", "p", "_", "t", "a", "b", "l", "e">>,
      <<"e", "x", "e", "c", "u", "t", "e", "_", "f", "r", "o", "m">>,
      <<"e", "x", "e", "c", "u", "t", "e", "_", "j", "o", "i", "n">>,
      <<"e", "x", "e", "c", "u", "t", "e", "_", "s", "h", "o", "w">>,
      <<"f", "l", "a", "t", "t", "e", "n", "_", "a", "n", "d", "s">>,
      <<"g", "e", "t", "_", "a", "l", "i", "a", "s">>,
      <<"g", "e", "t", "_", "m", "o", "d", "e", "l">>,
      <<"i", "n", "s", "p", "e", "c", "t">>,
      <<"i", "n", "t", "e", "r", "n", "a", "l", "_", "c", "o", "l", "u", "m", "n">>,
      <<"i", "t">>,
      <<"l", "o", "g", "g", "i", "n", "g">>,
      <<"m">>,
      <<"m", "a", "k", "e", "_", "m", "e", "t", "a">>,
      <<"n", "o", "r", "m", "a", "l", "i", "z", "e", "_", "c", "o", "l", "_", "r", "e", "f">>,
      <<"n", "o", "r", "m", "a", "l", "i", "z", "e", "_", "c", "o", "l", "u", "m", "n", "s">>,
      <<"n", "o", "r", "m", "a", "l", "i", "z", "e", "_", "g", "r", "o", "u", "p", "_", "b", "y">>,
      <<"p", "a", "r", "s", "e">>,
      <<"p", "r", "i", "n", "t", "_", "f", "u", "n", "c", "t", "i", "o", "n">>,
      <<"s", "o", "r", "t">>,
      <<"t", "o", "_", "i", "n", "t", "e", "r", "n", "a", "l", "_", "c", "o", "l">>,
      <<"w", "a", "l", "k">>
    }

\* the locals of Executor.execute when it calls execute
ExecuteLocals ==
    {
      <<"s", "e", "l", "f">>,
      <<"q">>,
      <<"b", "a", "s", "e", "p", "a", "t", "h">>,
      <<"m", "o", "d", "e", "l">>
    }

\* the globals and locals of the frame that calls execute: no tables
Opaque == [tag |-> "object"]

CallerFrame == [name \in ModuleGlobals \cup ExecuteLocals |-> Opaque]

\* execute(q, scope): without a scope a new dict of the caller's names
execute_scope(self_scope) == IF self_scope.none THEN CallerFrame ELSE self_scope.tables

\* self.scope after the statement: the dict execute built is dropped
Executor_scope_after(self_scope, r) ==
    IF self_scope.none THEN self_scope ELSE Mapping(r.scope)

\* Executor.execute: execute(q, self.scope, model=model)
Executor_execute(self_scope, node) == execute(node, execute_scope(self_scope))

(***************************************************************************)
(* The Executor under test: constructed without a scope, with an empty one *)
(* or with the table t, then updated and given statements in any order.    *)
(* history.default tells that no scope was given; history.created holds    *)
(* the names bound by a successful CREATE TABLE AS.                        *)
(***************************************************************************)
ConstantQuery == SimpleSelect(NoNode, <<Column(Integer(1), ColA.name)>>, NoNode)

ExecutorQueries == PlainQueries \cup {ConstantQuery}

ExecutorUpdates == {(TableT :> BaseTable), (TableU :> BaseTable)}

InitExecutor ==
    /\ call \in {[fn |-> "Executor", scope |-> arg] :
                    arg \in {NoScope, Mapping(<<>>), Mapping(TableT :> BaseTable)}}
    /\ result = Pending
    /\ scope = Executor_init(call.scope)
    /\ history = [default |-> call.scope.none, created |-> {}]

ExecutorUpdate ==
    \E tables \in ExecutorUpdates :
        /\ call' = [fn |-> "update", tables |-> tables]
        /\ result' = [fn |-> "update", ret |-> Executor_update(scope, tables).ret,
                      before |-> scope]
        /\ scope' = Executor_update(scope, tables).scope
        /\ UNCHANGED history

ExecutorCreateTableAs ==
    \E name \in {TableT, TableU}, query \in ExecutorQueries :
        /\ call' = [fn |-> "create_table_as", node |-> CreateTableAs(Name(name), query)]
        /\ result' = [fn |-> "create_table_as",
                      ret |-> Executor_execute(scope, call'.node), before |-> scope]
        /\ scope' = Executor_scope_after(scope, result'.ret)
        /\ history' = [history EXCEPT
                          !.created = IF result'.ret.ok THEN @ \cup {name} ELSE @]

ExecutorSelect ==
    \E query \in ExecutorQueries :
        /\ call' = [fn |-> "select", node |-> query]
        /\ result' = [fn |-> "select", ret |-> Executor_execute(scope, query),
                      before |-> scope]
        /\ scope' = Executor_scope_after(scope, result'.ret)
        /\ UNCHANGED history

NextExecutor == ExecutorUpdate \/ ExecutorCreateTableAs \/ ExecutorSelect

SpecExecutor == InitExecutor /\ [][NextExecutor]_vars

(***************************************************************************)
(* Claims on the Executor, checked under SpecExecutor.                     *)
(***************************************************************************)
\* C15 as stated: an Executor constructed without a scope holds a mapping,
\* the empty one at first; update adds the given tables to it; a table
\* bound by a successful CREATE TABLE AS is in the scope afterwards, so
\* that a later SELECT from it succeeds.
C15_DefaultScopeAsStated ==
    history.default =>
        /\ ~scope.none
        /\ result = Pending => scope.tables = <<>>
        /\ result.fn = "update" =>
               /\ result.ret.ok
               /\ \A name \in DOMAIN call.tables :
                      name \in DOMAIN scope.tables /\ scope.tables[name] = call.tables[name]
        /\ history.created \subseteq DOMAIN scope.tables
        /\ \A name \in history.created :
               (result.fn = "select" /\ call.node.from_clause = From(name))
                   => result.ret.ok

\* with a scope given, update and CREATE TABLE AS do what is stated
C15_GivenScope ==
    ~history.default =>
        /\ ~scope.none
        /\ result.fn = "update" =>
               /\ result.ret.ok
               /\ \A name \in DOMAIN call.tables :
                      name \in DOMAIN scope.tables /\ scope.tables[name] = call.tables[name]
        /\ history.created \subseteq DOMAIN scope.tables
        /\ \A name \in history.created :
               (result.fn = "select" /\ call.node.from_clause = From(name))
                   => result.ret.ok

\* without a scope: update fails, and the table a CREATE TABLE AS bound is
\* unknown to the next statement
C15_UpdateFails ==
    /\ history.default
    /\ result.fn = "update"
    /\ result.ret = Raise("AttributeError")

C15_CreatedTableLost ==
    /\ history.default
    /\ TableT \in history.created
    /\ result.fn = "select"
    /\ call.node = SimpleSelect(From(TableT), <<WildCard(None)>>, NoNode)
    /\ ~result.ret.ok
    /\ result.ret.err = "TableNotFound"

(***************************************************************************)
(* More claims on the aggregate split, checked under SpecSplit.            *)
(***************************************************************************)
\* the symbols the group-by columns of the inputs hold
TakenSymbols == {UniqueSymbol(k) : k \in 0..(SplitContext.uniques - 1)}

IsFresh(symbol) == IsUnique(symbol) /\ symbol \notin TakenSymbols

\* the function name reads count, in any case of its letters
ReadsCount(func) ==
    /\ Len(func) = 5
    /\ func[1] \in {"c", "C"} /\ func[2] \in {"o", "O"} /\ func[3] \in {"u", "U"}
    /\ func[4] \in {"n", "N"} /\ func[5] \in {"t", "T"}

\* the call that is split: COUNT(*) stands for count(1)
Rewritten(node) ==
    IF ReadsCount(node.func) /\ node.args = <<WildCard(None)>>
    THEN CallSetFunction(CountName, <<Integer(1)>>)
    ELSE node

\* split holds the n + 2 fragments of the call node, in order
IsCallSplit(split, node) ==
    LET n == Len(node.args)
    IN  /\ Len(split) = n + 2
        /\ \A i \in 1..n :
               /\ split[i].level = 2
               /\ split[i].item.tag = "Column"
               /\ split[i].item.value = node.args[i]
               /\ IsFresh(split[i].item.alias)
        /\ split[n + 1].level = 1
        /\ split[n + 1].item.tag = "Column"
        /\ IsFresh(split[n + 1].item.alias)
        /\ split[n + 1].item.value
               = CallSetFunction(node.func, [i \in 1..n |-> Name(split[i].item.alias)])
        /\ split[n + 2] = Fragment(0, Name(split[n + 1].item.alias))
        /\ \A i, j \in 1..(n + 1) :
               i # j => split[i].item.alias # split[j].item.alias

\* C16: the split of a CallSetFunction of n arguments that is no group-by
\* key is n fragments of level 2, Column(argument, fresh symbol) in
\* argument order with the arguments as they are, then the fragment of
\* level 1, Column(the call over the names of those symbols, fresh symbol),
\* then the fragment of level 0, the name of that symbol; the n + 1 symbols
\* are pairwise different and held by no group-by column; COUNT(*), in any
\* case of letters, is split as count(1).
C16_CallSplit ==
    (/\ result.fn = "aggregate_split"
     /\ call.node.tag = "CallSetFunction"
     /\ ~IsGroupKey(call.node, call.group_by))
    => /\ result.ret.ok
       /\ IsCallSplit(result.ret.val, Rewritten(call.node))

\* Count(*) in mixed case, and an aggregate over an aggregate
C16_Witness ==
    /\ result.fn = "aggregate_split"
    /\ call.node = CallSetFunction(CountMixed, <<WildCard(None)>>)
    /\ result.ret.ok
    /\ result.ret.val
           = <<Fragment(2, Column(Integer(1), UniqueSymbol(4))),
               Fragment(1, Column(CallSetFunction(CountName, <<Name(UniqueSymbol(4))>>),
                                  UniqueSymbol(5))),
               Fragment(0, Name(UniqueSymbol(5)))>>

C16_NestedWitness ==
    /\ result.fn = "aggregate_split"
    /\ call.node = CallSetFunction(MaxName, <<CallSetFunction(SumName, <<ColP>>)>>)
    /\ call.group_by = <<>>
    /\ result.ret.ok
    /\ Len(result.ret.val) = 3
    /\ result.ret.val[1].item.value = CallSetFunction(SumName, <<ColP>>)

\* the alias of a select column: the explicit alias, else the name the
\* value refers to, both as internal identifiers, else a fresh symbol
HasColumnAlias(node, alias) ==
    IF node.alias # None THEN alias = InternalOfAlias(node.alias)
    ELSE IF node.value.tag = "Name" THEN alias = InternalOfAlias(node.value.name)
    ELSE IsFresh(alias)

\* the context the value is split in: the column's symbol, when it takes
\* one, is allocated before
ValueContext(node) ==
    IF node.alias = None /\ node.value.tag # "Name"
    THEN [SplitContext EXCEPT !.uniques = @ + 1]
    ELSE SplitContext

\* split is the level 0 fragment of the value under the alias of the
\* column, then the value's fragments of level 1, then those of level 2
IsColumnSplit(split, node, inner) ==
    /\ Len(AtLevel(inner, 0)) = 1
    /\ Len(split) = Len(inner)
    /\ split[1].level = 0
    /\ split[1].item.tag = "Column"
    /\ split[1].item.value = AtLevel(inner, 0)[1]
    /\ HasColumnAlias(node, split[1].item.alias)
    /\ split = <<split[1]>>
               \o [i \in 1..Len(AtLevel(inner, 1)) |-> Fragment(1, AtLevel(inner, 1)[i])]
               \o [i \in 1..Len(AtLevel(inner, 2)) |-> Fragment(2, AtLevel(inner, 2)[i])]

SplitOfValue(node) == aggregate_split(node.value, call.group_by, ValueContext(node))

\* C17 as stated: the split of a Column whose value splits is the value's
\* level 0 fragment under the column's alias followed by the value's
\* fragments of levels 1 and 2; when the value is a single aggregate call
\* there are exactly one fragment of level 1 and at least one of level 2.
C17_ColumnSplitAsStated ==
    (/\ result.fn = "aggregate_split"
     /\ call.node.tag = "Column"
     /\ SplitOfValue(call.node).ok)
    => /\ result.ret.ok
       /\ IsColumnSplit(result.ret.val, call.node, SplitOfValue(call.node).val)
       /\ call.node.value.tag = "CallSetFunction"
              => /\ Len(AtLevel(result.ret.val, 1)) = 1
                 /\ Len(AtLevel(result.ret.val, 2)) >= 1

\* C17: as above, the count of fragments stated for an aggregate call that
\* has at least one argument and is not the value of a group-by column.
C17_ColumnSplit ==
    (/\ result.fn = "aggregate_split"
     /\ call.node.tag = "Column"
     /\ SplitOfValue(call.node).ok)
    => /\ result.ret.ok
       /\ IsColumnSplit(result.ret.val, call.node, SplitOfValue(call.node).val)
       /\ (/\ call.node.value.tag = "CallSetFunction"
           /\ Len(call.node.value.args) >= 1
           /\ ~IsGroupKey(call.node.value, call.group_by))
              => /\ Len(AtLevel(result.ret.val, 1)) = 1
                 /\ Len(AtLevel(result.ret.val, 2)) >= 1

\* SUM(p * q) AS x
C17_Witness ==
    /\ result.fn = "aggregate_split"
    /\ call.node = Column(CallSetFunction(SumName, <<BinaryOp("*", ColP, ColQ)>>), <<"x">>)
    /\ call.group_by = <<>>
    /\ result.ret.ok
    /\ result.ret.val
           = <<Fragment(0, Column(Name(UniqueSymbol(5)), <<"x">>)),
               Fragment(1, Column(CallSetFunction(SumName, <<Name(UniqueSymbol(4))>>),
                                  UniqueSymbol(5))),
               Fragment(2, Column(BinaryOp("*", ColP, ColQ), UniqueSymbol(4)))>>

\* SUM(p) selected and grouped by: one fragment, none of level 1
C17_GroupKeyAggregate ==
    /\ result.fn = "aggregate_split"
    /\ call.node = Column(CallSetFunction(SumName, <<ColP>>), None)
    /\ call.group_by = <<Column(CallSetFunction(SumName, <<ColP>>), UniqueSymbol(1))>>
    /\ result.ret.ok
    /\ result.ret.val = <<Fragment(0, Column(Name(UniqueSymbol(1)), UniqueSymbol(4)))>>

\* C18: the split of an expression equal to the value of a group-by column
\* is one fragment of level 0, the name of the alias of such a column, and
\* nothing else, whatever the variant of the expression: also for one that
\* no rule handles and for an aggregate call.
C18_ShortCircuit ==
    (result.fn = "aggregate_split" /\ IsGroupKey(call.node, call.group_by))
    => /\ result.ret.ok
       /\ Len(result.ret.val) = 1
       /\ result.ret.val[1].level = 0
       /\ \E i \in 1..Len(call.group_by) :
              /\ call.group_by[i].value = call.node
              /\ result.ret.val[1].item = Name(call.group_by[i].alias)
       /\ result.ret.ctx = SplitContext

\* p * q, which no rule handles, and SUM(p), both group-by keys
C18_Witness ==
    /\ result.fn = "aggregate_split"
    /\ call.node = BinaryOp("*", ColP, ColQ)
    /\ call.group_by = <<Column(ColD, <<"d">>),
                         Column(BinaryOp("*", ColP, ColQ), UniqueSymbol(0))>>
    /\ result.ret.ok
    /\ result.ret.val = <<Fragment(0, Name(UniqueSymbol(0)))>>

C18_AggregateKeyWitness ==
    /\ result.fn = "aggregate_split"
    /\ call.node = CallSetFunction(SumName, <<ColP>>)
    /\ call.group_by = <<Column(CallSetFunction(SumName, <<ColP>>), UniqueSymbol(1))>>
    /\ result.ret.val = <<Fragment(0, Name(UniqueSymbol(1)))>>

(***************************************************************************)
(* SELECT statements with and without GROUP BY over select lists with and  *)
(* without aggregate calls.                                                *)
(***************************************************************************)
MaxSelectColumns == 2

ImplicitColumns ==
    {Column(ColP, None),
     Column(BinaryOp("+", ColP, Integer(1)), None),
     Column(CallSetFunction(SumName, <<ColP>>), <<"x">>),
     Column(CallSetFunction(CountUpper, <<WildCard(None)>>), None),
     Column(BinaryOp("+", CallSetFunction(SumName, <<ColP>>), Integer(1)), None)}

ImplicitColumnLists == SeqsUpTo(ImplicitColumns, MaxSelectColumns) \ {<<>>}

ImplicitGroupBys == {NoNode, List(<<>>), List(<<ColD>>)}

ImplicitNodes ==
    { Select(NoNode, From(TableE), columns, where_clause, group_by_clause, NoNode,
             NoNode, NoNode, NoNode, NoQuantifier) :
        columns \in ImplicitColumnLists,
        where_clause \in {NoNode, BinaryOp("<", ColP, Integer(10))},
        group_by_clause \in ImplicitGroupBys }

InitImplicit ==
    /\ call \in {[fn |-> "execute", node |-> node] : node \in ImplicitNodes}
    /\ result = Pending
    /\ scope \in {(TableE :> SampleTable), (TableE :> Table(SampleTable.columns, <<>>))}
    /\ history = [present |-> DOMAIN scope]

CallExecuteImplicit ==
    /\ result = Pending
    /\ Execute(call.node)
    /\ UNCHANGED <<call, history>>

NextImplicit == CallExecuteImplicit

SpecImplicit == InitImplicit /\ [][NextImplicit]_vars

(***************************************************************************)
(* Claims on implicit grouping, checked under SpecImplicit.                *)
(***************************************************************************)
\* no GROUP BY clause: absent or empty
NoGroupByClause(node) ==
    node.group_by_clause = NoNode \/ node.group_by_clause = List(<<>>)

\* an aggregate call at any depth of an expression
RECURSIVE HoldsAggregate(_)
HoldsAggregate(expr) ==
    CASE expr.tag = "CallSetFunction" -> TRUE
      [] expr.tag = "Column" -> HoldsAggregate(expr.value)
      [] expr.tag = "BinaryOp" -> HoldsAggregate(expr.left) \/ HoldsAggregate(expr.right)
      [] OTHER -> FALSE

\* an aggregate call as the whole value of a select column
TopLevelAggregate(col) == col.tag = "Column" /\ col.value.tag = "CallSetFunction"

\* the transform and aggregate operations issued for the statement
ProjectionEvents(ops) ==
    SelectSeq(EventsOfSelect(ops, 1), LAMBDA ev : ev.op \in {"transform", "aggregate"})

ProjectionOps(ops) == [i \in 1..Len(ProjectionEvents(ops)) |-> ProjectionEvents(ops)[i].op]

\* one group-by column, the constant TRUE under a symbol
IsImplicitGroupBy(group_by) ==
    /\ Len(group_by) = 1
    /\ group_by[1].tag = "Column"
    /\ group_by[1].value = Bool(TRUE)
    /\ IsUnique(group_by[1].alias)

\* C20 as stated: without a GROUP BY clause (absent or empty), a select
\* list holding an aggregate call at any depth has transform, aggregate,
\* transform issued, the aggregate over the one group-by column TRUE under
\* a fresh symbol; a select list without aggregate call has one transform
\* issued and no aggregate.
C20_ImplicitGroupingAsStated ==
    (result.fn = "execute" /\ NoGroupByClause(call.node)) =>
        IF \E i \in 1..Len(call.node.columns) : HoldsAggregate(call.node.columns[i])
        THEN /\ ProjectionOps(result.ret.ctx.ops) = <<"transform", "aggregate", "transform">>
             /\ IsImplicitGroupBy(ProjectionEvents(result.ret.ctx.ops)[2].group_by)
        ELSE ProjectionOps(result.ret.ctx.ops) = <<"transform">>

\* what does hold: the two cases as stated when, next to an aggregate
\* call, every select column is an aggregate call or a name, and when,
\* without aggregate call, the GROUP BY clause is absent
Splittable(col) == TopLevelAggregate(col) \/ (col.tag = "Column" /\ col.value.tag = "Name")

C20_TopLevelAggregates ==
    (result.fn = "execute" /\ NoGroupByClause(call.node)) =>
        IF \E i \in 1..Len(call.node.columns) : HoldsAggregate(call.node.columns[i])
        THEN (\A i \in 1..Len(call.node.columns) : Splittable(call.node.columns[i]))
             => /\ ProjectionOps(result.ret.ctx.ops) = <<"transform", "aggregate", "transform">>
                /\ IsImplicitGroupBy(ProjectionEvents(result.ret.ctx.ops)[2].group_by)
        ELSE call.node.group_by_clause = NoNode
             => ProjectionOps(result.ret.ctx.ops) = <<"transform">>

\* SELECT SUM(p) AS x FROM e: one row, the sum over all rows
C20_SumWitness ==
    /\ result.fn = "execute"
    /\ call.node.columns = <<Column(CallSetFunction(SumName, <<ColP>>), <<"x">>)>>
    /\ call.node.group_by_clause = NoNode
    /\ call.node.where_clause = NoNode
    /\ result.before[TableE] = SampleTable
    /\ result.ret.ok
    /\ result.ret.val.rows = << <<22>> >>

\* SELECT SUM(p) + 1 FROM e: no rule splits the sum, nothing is issued
C20_NestedAggregate ==
    /\ result.fn = "execute"
    /\ call.node.columns
           = <<Column(BinaryOp("+", CallSetFunction(SumName, <<ColP>>), Integer(1)), None)>>
    /\ call.node.group_by_clause = NoNode
    /\ ~result.ret.ok
    /\ result.ret.err = "NoHandler"
    /\ ProjectionOps(result.ret.ctx.ops) = <<>>

\* SELECT p FROM e with an empty GROUP BY list: the aggregate path
C20_EmptyGroupBy ==
    /\ result.fn = "execute"
    /\ call.node.columns = <<Column(ColP, None)>>
    /\ call.node.group_by_clause = List(<<>>)
    /\ "aggregate" \in {ProjectionOps(result.ret.ctx.ops)[i] :
                           i \in 1..Len(ProjectionOps(result.ret.ctx.ops))}

(***************************************************************************)
(* SplitResult.by_levels under test: every sequence of up to MaxFragments  *)
(* fragments of the levels 0..3, the empty one included, and maxlevel from *)
(* 0 to 2.                                                                 *)
(***************************************************************************)
MaxFragments == 3

LevelFragments == {Fragment(level, item) : level \in 0..3, item \in {ColP, ColQ}}

LevelCalls ==
    {[fn |-> "by_levels", split |-> split, maxlevel |-> maxlevel] :
        split \in SeqsUpTo(LevelFragments, MaxFragments), maxlevel \in 0..2}

InitLevels ==
    /\ call \in LevelCalls
    /\ result = Pending
    /\ scope = <<>>
    /\ history = <<>>

CallByLevels ==
    /\ result = Pending
    /\ result' = [fn |-> call.fn, ret |-> by_levels(call.split, call.maxlevel)]
    /\ UNCHANGED <<call, scope, history>>

NextLevels == CallByLevels

SpecLevels == InitLevels /\ [][NextLevels]_vars

(***************************************************************************)
(* Claims on by_levels, checked under SpecLevels.                          *)
(***************************************************************************)
\* the positions of the fragments of a level, and the k-th of them
PositionsAtLevel(split, level) == {i \in 1..Len(split) : split[i].level = level}

KthAtLevel(split, level, k) ==
    CHOOSE i \in PositionsAtLevel(split, level) :
        Cardinality({j \in PositionsAtLevel(split, level) : j <= i}) = k

\* lists holds, for every level 0..maxlevel, the items of that level in the
\* order of the sequence
IsBucketed(lists, split, maxlevel) ==
    /\ Len(lists) = maxlevel + 1
    /\ \A level \in 0..maxlevel :
           /\ Len(lists[level + 1]) = Cardinality(PositionsAtLevel(split, level))
           /\ \A k \in 1..Len(lists[level + 1]) :
                  lists[level + 1][k] = split[KthAtLevel(split, level, k)].item

WithinLevels(split, maxlevel) == \A i \in 1..Len(split) : split[i].level <= maxlevel

\* C21 as stated: for every sequence of fragments of levels up to maxlevel,
\* the empty sequence included, by_levels returns maxlevel + 1 lists, list
\* i the items of level i in their order; a fragment of a level beyond
\* maxlevel fails the assertion.
C21_ByLevelsAsStated ==
    result.fn = "by_levels" =>
        IF WithinLevels(call.split, call.maxlevel)
        THEN result.ret.ok /\ IsBucketed(result.ret.val, call.split, call.maxlevel)
        ELSE result.ret = Raise("AssertionError")

\* what does hold: the same for the sequences of at least one fragment
C21_ByLevelsOfFragments ==
    (result.fn = "by_levels" /\ call.split # <<>>) =>
        IF WithinLevels(call.split, call.maxlevel)
        THEN result.ret.ok /\ IsBucketed(result.ret.val, call.split, call.maxlevel)
        ELSE result.ret = Raise("AssertionError")

C21_BucketWitness ==
    /\ result.fn = "by_levels"
    /\ call.split = <<Fragment(0, ColP), Fragment(2, ColQ), Fragment(0, ColQ)>>
    /\ call.maxlevel = 2
    /\ result.ret = Ok(<< <<ColP, ColQ>>, <<>>, <<ColQ>> >>)

\* the empty sequence: max of no levels
C21_EmptySequence ==
    /\ result.fn = "by_levels"
    /\ call.split = <<>>
    /\ result.ret = Raise("ValueError")

\* every fragment of the split of a select column or expression has level
\* 0, 1 or 2 (checked under SpecSplit)
C21_SplitLevels ==
    (result.fn = "aggregate_split" /\ result.ret.ok) =>
        /\ result.ret.val # <<>>
        /\ \A i \in 1..Len(result.ret.val) : result.ret.val[i].level \in 0..2

(***************************************************************************)
(* Registration of lateral functions, Executor.add_lateral_function.  The  *)
(* model object holds the mappings lateral_functions and lateral_meta.     *)
(* make_meta (util) is not part of the sources: for a list of name-type    *)
(* pairs it is the meta data built from the list; what it does with None   *)
(* is open, so the call with None either raises or returns.                *)
(***************************************************************************)
make_meta(meta) == [tag |-> "Meta", of |-> meta]

\* Executor.add_lateral_function: the outcome and self.model
add_lateral_function(model, name, func, meta, meta_raises) ==
    IF meta = NoNode
    THEN IF meta_raises
         THEN [ret |-> Raise("TypeError"),
               model |-> [model EXCEPT !.lateral_functions = dict_set(@, name, func)]]
         ELSE [ret |-> Ok(None),
               model |-> [model EXCEPT !.lateral_functions = dict_set(@, name, func),
                                       !.lateral_meta = dict_set(@, name, make_meta(meta))]]
    ELSE [ret |-> Ok(None),
          model |-> [model EXCEPT !.lateral_functions = dict_set(@, name, func)]]

FunctionNames == {<<"f">>, <<"g">>}

KeyMeta == <<"key", "str">>

ValueMeta == <<"value", "int">>

MetaLists == {NoNode, List(<<KeyMeta>>), List(<<KeyMeta, ValueMeta>>)}

InitRegistry ==
    /\ call = Pending
    /\ result = Pending
    /\ scope = [lateral_functions |-> <<>>, lateral_meta |-> <<>>]
    /\ history = <<>>

AddLateralFunction ==
    \E name \in FunctionNames, func \in LateralFunctions, meta \in MetaLists,
       meta_raises \in BOOLEAN :
        /\ call' = [fn |-> "add_lateral_function", name |-> name, func |-> func,
                    meta |-> meta]
        /\ result' = [fn |-> "add_lateral_function",
                      ret |-> add_lateral_function(scope, name, func, meta, meta_raises).ret,
                      before |-> scope]
        /\ scope' = add_lateral_function(scope, name, func, meta, meta_raises).model
        /\ UNCHANGED history

NextRegistry == AddLateralFunction

SpecRegistry == InitRegistry /\ [][NextRegistry]_vars

(***************************************************************************)
(* Claims on the registration, checked under SpecRegistry.                 *)
(***************************************************************************)
\* C22 as stated: after add_lateral_function(name, func, meta) the model's
\* lateral_functions maps name to func, and when a meta list was given its
\* lateral_meta holds, under name, the meta data built from that list.
C22_LateralMetaAsStated ==
    result.fn = "add_lateral_function" =>
        /\ call.name \in DOMAIN scope.lateral_functions
        /\ scope.lateral_functions[call.name] = call.func
        /\ call.meta # NoNode =>
               /\ call.name \in DOMAIN scope.lateral_meta
               /\ scope.lateral_meta[call.name] = make_meta(call.meta)

\* what does hold: the function is registered, and lateral_meta changes
\* only when no meta list is given
C22_FunctionRegistered ==
    result.fn = "add_lateral_function" =>
        /\ call.name \in DOMAIN scope.lateral_functions
        /\ scope.lateral_functions[call.name] = call.func
        /\ call.meta # NoNode => scope.lateral_meta = result.before.lateral_meta

\* a meta list given and nothing kept under the name
C22_MetaDropped ==
    /\ result.fn = "add_lateral_function"
    /\ call.meta = List(<<KeyMeta, ValueMeta>>)
    /\ result.ret.ok
    /\ call.name \notin DOMAIN scope.lateral_meta

====
